---- MODULE Spec2Model ----
(***************************************************************************)
(* Kalshi-BTC: the simulation job controller (useSimulation hook), the     *)
(* simulation web worker and the result cache (SimulationCache).           *)
(*                                                                         *)
(* Units: money in cents, time in milliseconds, sensitivity multipliers in *)
(* percent (1.0 = 100), progress as a reduced fraction num/den.            *)
(***************************************************************************)
EXTENDS Integers, Sequences, FiniteSets, TLC

VARIABLES
    state,          \* useSimulation: {isRunning, progress, result, error}
    workerRef,      \* useSimulation: workerRef.current is set
    toWorker,       \* messages posted to the worker, not yet handled
    toMain,         \* messages posted by the worker, not yet handled
    isInitialized,  \* worker: isInitialized
    initAwait,      \* worker: initWasm is suspended at `await init(wasmPath)`
    workerBuild,    \* which of the two worker sources is deployed
    cache,          \* SimulationCache.cache: entries in insertion order
    now,            \* Date.now()
    dispatched,     \* number of 'run' messages posted so far (job ids 1..dispatched)
    cancelled,      \* jobs that were running when stopSimulation was called
    swrData,        \* useCalibration: the data useSWR holds (the last response body)
    calibrationCache, \* calibrate route: {data, timestamp}
    last,           \* the hook's most recent step that did something: its
                    \* operation, outcome, job, cache key and effects in order
    keyA, keyB,     \* two cache keys and what generateKey made of them (SpecKey)
    client,         \* a websocket client: the fields of the class instance
    sockets,        \* the WebSocket objects the client created, in order
    timers          \* the setInterval and pong timers that are running

vars == <<state, workerRef, toWorker, toMain, isInitialized,
          initAwait, workerBuild, cache, now, dispatched, cancelled, swrData,
          calibrationCache, last, keyA, keyB, client, sockets, timers>>

----------------------------------------------------------------------------
(* Program constants *)

maxAge == 60000
maxSize == 50
DEFAULT_SIMULATION_PATHS == 50000
CACHE_TTL == 120000

(* Bounds of the model *)

MaxJobs == 2          \* 'run' messages the hook dispatches in one behaviour
MaxResults == 3       \* longest array run_batch returns
MaxStops == 1         \* 'stop' requests in flight at one time
MaxTicks == 1         \* clock advances in one behaviour

\* one clock advance takes an entry just past its maximum age
TickMs == maxAge + 1
MsPerHour == 3600 * 1000

----------------------------------------------------------------------------
(* Values *)

Undefined == 0 - 1

NoError == "null"

NoTarget == [kind |-> "none", K |-> Undefined, L |-> Undefined, U |-> Undefined]

NoInputs == [s0 |-> 0, t |-> 0, theta |-> 0, pi0 |-> <<0, 0>>,
             lambda |-> 0, mu_j |-> 0, sigma_j |-> 0, kind |-> "none"]

NoResult == [job |-> 0, target |-> NoTarget, inputs |-> NoInputs, paths |-> 0]

NoSensitivity == [volatilityMultiplier |-> Undefined,
                  jumpIntensityMultiplier |-> Undefined,
                  jumpSizeMultiplier |-> Undefined]

NoCalibration == [dailyRV |-> Undefined,
                  regime |-> [current |-> "none", probabilities |-> <<0, 0>>],
                  jumps |-> [lambda |-> 0, mu_j |-> 0, sigma_j |-> 0, kind |-> "none"]]

NoKey == [marketTicker |-> "none", s0 |-> 0, timeToClose |-> 0,
          sensitivity |-> NoSensitivity]

\* a websocket client that was never constructed
NoClient == [kind |-> "none", ws |-> 0, reconnectTimeout |-> FALSE,
             heartbeatInterval |-> 0, pongTimeout |-> 0,
             subscribedTickers |-> <<>>, status |-> "disconnected"]

\* no setInterval timer and no pong timer is running
NoTimers == [intervals |-> {}, pongTimeouts |-> {}]

\* the result of arithmetic on undefined
NaN == 0 - 2

\* obj.field: undefined when the object has no such property
Prop(obj, field) == IF field \in DOMAIN obj THEN obj[field] ELSE Undefined

\* null, as JSON.stringify writes NaN
Null == 0 - 3

\* a * b on numbers that may be undefined, NaN or null (null counts as 0)
JsTimes(a, b) ==
    IF a \in {Undefined, NaN} \/ b \in {Undefined, NaN} THEN NaN
    ELSE (IF a = Null THEN 0 ELSE a) * (IF b = Null THEN 0 ELSE b)

RECURSIVE GCD(_, _)
GCD(a, b) == IF b = 0 THEN a ELSE GCD(b, a % b)

\* the number n/d, reduced
Frac(n, d) == [num |-> n \div GCD(n, d), den |-> d \div GCD(n, d)]

FracLess(a, b) == a.num * b.den < b.num * a.den

\* Math.round(n/d) for d > 0: the nearest integer, halves towards +infinity
MathRound(n, d) == (2 * n + d) \div (2 * d)

\* Math.ceil(n/d) for d > 0
MathCeil(n, d) == (n + d - 1) \div d

Max(a, b) == IF a >= b THEN a ELSE b

----------------------------------------------------------------------------
(* SimulationCache: a JavaScript Map from the fingerprint string to          *)
(* {result, timestamp}, kept here as the sequence of its entries in          *)
(* insertion order.                                                          *)

\* generateKey with the price and the time truncated instead of rounded
generateKey_truncating(key) ==
    [ticker |-> key.marketTicker,
     s0     |-> key.s0 \div 100,
     t      |-> (key.timeToClose * 10) \div MsPerHour,
     vol    |-> key.sensitivity.volatilityMultiplier,
     jump   |-> key.sensitivity.jumpIntensityMultiplier,
     size   |-> key.sensitivity.jumpSizeMultiplier]

\* JSON.stringify of an object of fixed shape is one-to-one on its field
\* values, so the fingerprint is kept as the record that is stringified.
\* t is Math.round(timeToClose * 10) / 10 hours, kept in tenths of an hour.
generateKey(key) ==
    [ticker |-> key.marketTicker,
     s0     |-> MathRound(key.s0, 100),
     t      |-> MathRound(key.timeToClose * 10, MsPerHour),
     vol    |-> key.sensitivity.volatilityMultiplier,
     jump   |-> key.sensitivity.jumpIntensityMultiplier,
     size   |-> key.sensitivity.jumpSizeMultiplier]

MapHas(m, fp) == \E i \in 1..Len(m) : m[i].fp = fp

MapIndex(m, fp) == CHOOSE i \in 1..Len(m) : m[i].fp = fp

MapDelete(m, fp) == SelectSeq(m, LAMBDA e : e.fp # fp)

\* Map.prototype.set: an existing key keeps its place, a new one goes last
MapSet(m, fp, entry) ==
    IF MapHas(m, fp)
    THEN [i \in 1..Len(m) |-> IF m[i].fp = fp THEN entry ELSE m[i]]
    ELSE Append(m, entry)

\* get with an entry expiring when its age reaches maxAge (>= for >)
SimulationCache_get_expiresAtMaxAge(c, key, t) ==
    LET cacheKey == generateKey(key) IN
    IF ~MapHas(c, cacheKey)
    THEN [ret |-> NoResult, cache |-> c]
    ELSE LET entry == c[MapIndex(c, cacheKey)] IN
         IF t - entry.timestamp >= maxAge
         THEN [ret |-> NoResult, cache |-> MapDelete(c, cacheKey)]
         ELSE [ret |-> entry.result, cache |-> c]

\* get writing the time of the read into the entry it returns
SimulationCache_get_refreshesOnRead(c, key, t) ==
    LET cacheKey == generateKey(key) IN
    IF ~MapHas(c, cacheKey)
    THEN [ret |-> NoResult, cache |-> c]
    ELSE LET entry == c[MapIndex(c, cacheKey)] IN
         IF t - entry.timestamp > maxAge
         THEN [ret |-> NoResult, cache |-> MapDelete(c, cacheKey)]
         ELSE [ret |-> entry.result,
               cache |-> MapSet(c, cacheKey, [entry EXCEPT !.timestamp = t])]

\* get(key): the result returned and the cache afterwards
SimulationCache_get(c, key, t) ==
    LET cacheKey == generateKey(key) IN
    IF ~MapHas(c, cacheKey)
    THEN [ret |-> NoResult, cache |-> c]
    ELSE LET entry == c[MapIndex(c, cacheKey)] IN
         IF t - entry.timestamp > maxAge
         THEN [ret |-> NoResult, cache |-> MapDelete(c, cacheKey)]
         ELSE [ret |-> entry.result, cache |-> c]

\* set evicting only when the size is over maxSize (> for >=)
SimulationCache_set_evictsWhenOver(c, key, result, t) ==
    LET cacheKey == generateKey(key)
        evicted  == IF Len(c) > maxSize THEN Tail(c) ELSE c
    IN  MapSet(evicted, cacheKey,
               [fp |-> cacheKey, result |-> result, timestamp |-> t])

\* set evicting the entry inserted last instead of the one inserted first
SimulationCache_set_evictsNewest(c, key, result, t) ==
    LET cacheKey == generateKey(key)
        evicted  == IF Len(c) >= maxSize THEN SubSeq(c, 1, Len(c) - 1) ELSE c
    IN  MapSet(evicted, cacheKey,
               [fp |-> cacheKey, result |-> result, timestamp |-> t])

\* set(key, result): the cache afterwards
SimulationCache_set(c, key, result, t) ==
    LET cacheKey == generateKey(key)
        evicted  == IF Len(c) >= maxSize THEN Tail(c) ELSE c
    IN  MapSet(evicted, cacheKey,
               [fp |-> cacheKey, result |-> result, timestamp |-> t])

SimulationCache_clear(c) == <<>>

----------------------------------------------------------------------------
(* Inputs of the model *)

MarketAbove == [ticker |-> "KXBTC-ABOVE", close_time |-> MsPerHour,
                strike_price |-> 100, range_low |-> Undefined,
                range_high |-> Undefined]

\* a market with neither a strike nor a range: prepareTarget gives null
MarketUntargeted == [ticker |-> "KXBTC-NONE", close_time |-> MsPerHour,
                     strike_price |-> Undefined, range_low |-> Undefined,
                     range_high |-> Undefined]

\* markets whose strike or range breaks the Target invariants, and a sound
\* range market
MarketZeroStrike == [ticker |-> "KXBTC-ZERO", close_time |-> MsPerHour,
                     strike_price |-> 0, range_low |-> Undefined,
                     range_high |-> Undefined]

MarketInverted == [ticker |-> "KXBTC-INVERTED", close_time |-> MsPerHour,
                   strike_price |-> Undefined, range_low |-> 110,
                   range_high |-> 90]

MarketRange == [ticker |-> "KXBTC-RANGE", close_time |-> MsPerHour,
                strike_price |-> Undefined, range_low |-> 90,
                range_high |-> 110]

CalibrationA == [dailyRV |-> 200,
                 regime |-> [current |-> "BULL", probabilities |-> <<50, 50>>],
                 jumps |-> [lambda |-> 10, mu_j |-> 0, sigma_j |-> 2,
                            kind |-> "merton"]]

CalibrationB == [dailyRV |-> 300,
                 regime |-> [current |-> "BEAR", probabilities |-> <<40, 60>>],
                 jumps |-> [lambda |-> 25, mu_j |-> 0, sigma_j |-> 5,
                            kind |-> "merton"]]

\* One request shape (Spec): what the page passes once the price and the
\* calibration have loaded
Markets == {MarketAbove}
Sensitivities == {NoSensitivity}
PathChoices == {DEFAULT_SIMULATION_PATHS}
Prices == {10000}
Calibrations == {CalibrationA}

\* Several request shapes (SpecInputs): a market without a target, the price
\* or the calibration still missing, two path counts and two calibrations
MarketsWide == {MarketAbove, MarketUntargeted}
PricesWide == {0, 10000}
PathChoicesWide == {DEFAULT_SIMULATION_PATHS, DEFAULT_SIMULATION_PATHS \div 50}
CalibrationsWide == {NoCalibration, CalibrationA, CalibrationB}

\* Request shapes of SpecRequests: every kind of market, the price or the
\* calibration present or missing
MarketsAll == {MarketAbove, MarketRange, MarketUntargeted, MarketZeroStrike,
               MarketInverted}
CalibrationsLoaded == {NoCalibration, CalibrationA}

WorkerBuilds == {"part_004", "simulation.worker.ts"}

----------------------------------------------------------------------------
(* useSimulation *)

\* x || 1.0 on a multiplier in percent: undefined and 0 are falsy
OrOne(x) == IF x = Undefined \/ x = 0 THEN 100 ELSE x

prepareSimInputs(market, calib, currentPrice, sensitivity, t) ==
    LET timeToClose == market.close_time - t
        volMultiplier == OrOne(sensitivity.volatilityMultiplier)
        jumpIntensityMultiplier == OrOne(sensitivity.jumpIntensityMultiplier)
        jumpSizeMultiplier == OrOne(sensitivity.jumpSizeMultiplier)
        theta == (calib.dailyRV * volMultiplier) * (calib.dailyRV * volMultiplier)
    IN  [s0      |-> currentPrice,
         t       |-> Max(MsPerHour \div 100, timeToClose),
         theta   |-> theta,
         pi0     |-> calib.regime.probabilities,
         lambda  |-> JsTimes(Prop(calib.jumps, "lambda"), jumpIntensityMultiplier),
         mu_j    |-> Prop(calib.jumps, "mu_j"),
         sigma_j |-> JsTimes(Prop(calib.jumps, "sigma_j"), jumpSizeMultiplier),
         kind    |-> "merton"]

prepareTarget(market) ==
    IF market.strike_price # Undefined
    THEN [kind |-> "above", K |-> market.strike_price, L |-> Undefined,
          U |-> Undefined]
    ELSE IF market.range_low # Undefined /\ market.range_high # Undefined
    THEN [kind |-> "range", K |-> Undefined, L |-> market.range_low,
          U |-> market.range_high]
    ELSE NoTarget

\* the cache key runSimulation builds (lines 213-223)
runCacheKey(market, sensitivity, price, t) ==
    [marketTicker |-> market.ticker,
     s0           |-> price,
     timeToClose  |-> market.close_time - t,
     sensitivity  |-> IF sensitivity # NoSensitivity THEN sensitivity
                      ELSE [volatilityMultiplier |-> 100,
                            jumpIntensityMultiplier |-> 100,
                            jumpSizeMultiplier |-> 100]]

NoRequest == [target |-> NoTarget, inputs |-> NoInputs, paths |-> 0]

Step(op, outcome, job, key, request, effects) ==
    [op |-> op, outcome |-> outcome, job |-> job, key |-> key,
     request |-> request, effects |-> effects]

\* 'stop' messages not yet handled and 'stopped' answers not yet received
StopsInFlight ==
    Len(SelectSeq(toWorker, LAMBDA m : m.type = "stop"))
        + Len(SelectSeq(toMain, LAMBDA m : m.type = "stopped"))

\* the effect of the useEffect that creates the worker and posts 'init'
Mount ==
    /\ ~workerRef
    /\ workerRef' = TRUE
    /\ toWorker' = Append(toWorker, [type |-> "init"])
    /\ last' = Step("mount", "init", 0, NoKey, NoRequest, <<"postMessage">>)
    /\ UNCHANGED <<state, toMain, isInitialized, initAwait,
                   workerBuild, cache, now, dispatched, cancelled, swrData, calibrationCache, keyA, keyB,
                   client, sockets, timers>>

\* runMissing clearing the run state as the cache-hit and dispatch branches do
runMissing_resetsState ==
    /\ state' = [isRunning |-> FALSE, progress |-> Frac(0, 1), result |-> NoResult,
                 error |-> "Missing required data for simulation"]
    /\ last' = Step("runSimulation", "missing", 0, NoKey, NoRequest, <<"setState">>)
    /\ UNCHANGED <<toWorker, cache, dispatched>>

\* runSimulation, early return: worker, price or calibration missing
runMissing ==
    /\ state' = [state EXCEPT !.error = "Missing required data for simulation"]
    /\ last' = Step("runSimulation", "missing", 0, NoKey, NoRequest, <<"setState">>)
    /\ UNCHANGED <<toWorker, cache, dispatched>>

\* runSimulation, early return: prepareTarget gave null
runInvalid ==
    /\ state' = [state EXCEPT !.error = "Invalid market target"]
    /\ last' = Step("runSimulation", "invalid", 0, NoKey, NoRequest, <<"setState">>)
    /\ UNCHANGED <<toWorker, cache, dispatched>>

\* runHit merging the cached result into the previous state, as the other
\* setState calls of the hook do
runHit_mergesIntoPrev(request, cacheKey, got) ==
    /\ state' = [state EXCEPT !.result = got.ret]
    /\ cache' = got.cache
    /\ last' = Step("runSimulation", "hit", 0, cacheKey, request,
                    <<"cache.get", "setState">>)
    /\ UNCHANGED <<toWorker, dispatched>>

\* runSimulation, the cache holds a result for the key
runHit(request, cacheKey, got) ==
    /\ state' = [isRunning |-> FALSE, progress |-> Frac(100, 1),
                 result |-> got.ret, error |-> NoError]
    /\ cache' = got.cache
    /\ last' = Step("runSimulation", "hit", 0, cacheKey, request,
                    <<"cache.get", "setState">>)
    /\ UNCHANGED <<toWorker, dispatched>>

\* runSimulation, no cached result: the run is posted to the worker
runMiss(request, cacheKey, got) ==
    /\ dispatched < MaxJobs
    /\ state' = [isRunning |-> TRUE, progress |-> Frac(0, 1),
                 result |-> NoResult, error |-> NoError]
    /\ cache' = got.cache
    /\ dispatched' = dispatched + 1
    /\ toWorker' = Append(toWorker,
            [type      |-> "run",
             job       |-> dispatched + 1,
             inputs    |-> request.inputs,
             target    |-> request.target,
             paths     |-> request.paths,
             batchSize |-> MathCeil(request.paths, 10),
             cacheKey  |-> cacheKey])
    /\ last' = Step("runSimulation", "miss", dispatched + 1, cacheKey, request,
                    <<"cache.get", "setState", "postMessage">>)

\* btcState.price (cents, 0 = null) and calibration (NoCalibration = null) are
\* the values the useBTCPrice and useCalibration hooks hold at the call
runSimulation(market, sensitivity, paths, price, calibration) ==
    /\ IF ~workerRef \/ price = 0 \/ calibration = NoCalibration
       THEN runMissing
       ELSE LET target == prepareTarget(market) IN
            IF target = NoTarget
            THEN runInvalid
            ELSE LET cacheKey == runCacheKey(market, sensitivity, price, now)
                     got == SimulationCache_get(cache, cacheKey, now)
                     request == [target |-> target,
                                 inputs |-> prepareSimInputs(market, calibration,
                                                price, sensitivity, now),
                                 paths  |-> paths]
                 IN  IF got.ret # NoResult
                     THEN runHit(request, cacheKey, got)
                     ELSE runMiss(request, cacheKey, got)
    /\ UNCHANGED <<workerRef, toMain, isInitialized, initAwait,
                   workerBuild, now, cancelled, swrData, calibrationCache, keyA, keyB,
                   client, sockets, timers>>

stopSimulation ==
    /\ workerRef
    /\ StopsInFlight < MaxStops
    /\ toWorker' = Append(toWorker, [type |-> "stop"])
    /\ state' = [state EXCEPT !.isRunning = FALSE, !.progress = Frac(0, 1)]
    /\ cancelled' = IF state.isRunning THEN cancelled \cup {dispatched} ELSE cancelled
    /\ last' = Step("stopSimulation", "stop", dispatched, NoKey, NoRequest,
                    <<"postMessage", "setState">>)
    /\ UNCHANGED <<workerRef, toMain, isInitialized, initAwait,
                   workerBuild, cache, now, dispatched,
                   swrData, calibrationCache, keyA, keyB,
                   client, sockets, timers>>

\* onComplete without the write to the cache
onComplete_withoutCacheWrite(msg) ==
    /\ UNCHANGED cache
    /\ state' = [state EXCEPT !.isRunning = FALSE, !.progress = Frac(100, 1),
                              !.result = msg.result, !.error = NoError]
    /\ last' = Step("onmessage", "complete", msg.job, msg.cacheKey, NoRequest,
                    <<"setState">>)

\* onComplete caching under the key of the request dispatched last, kept by
\* the hook, instead of the key that came back with the message
onComplete_underNewestKey(msg) ==
    LET result == msg.result
        runs == SelectSeq(toWorker, LAMBDA m : m.type = "run")
        cacheKey == IF runs # <<>> THEN runs[Len(runs)].cacheKey ELSE msg.cacheKey
        caches == cacheKey # NoKey /\ result # NoResult
    IN  /\ cache' = IF caches
                    THEN SimulationCache_set(cache, cacheKey, result, now)
                    ELSE cache
        /\ state' = [state EXCEPT !.isRunning = FALSE, !.progress = Frac(100, 1),
                                  !.result = result, !.error = NoError]
        /\ last' = Step("onmessage", "complete", msg.job, cacheKey, NoRequest,
                        IF caches THEN <<"cache.set", "setState">>
                        ELSE <<"setState">>)

\* worker.onmessage, case 'complete'
onComplete(msg) ==
    LET result == msg.result
        cacheKey == msg.cacheKey
        caches == cacheKey # NoKey /\ result # NoResult
    IN  /\ cache' = IF caches
                    THEN SimulationCache_set(cache, cacheKey, result, now)
                    ELSE cache
        /\ state' = [state EXCEPT !.isRunning = FALSE, !.progress = Frac(100, 1),
                                  !.result = result, !.error = NoError]
        /\ last' = Step("onmessage", "complete", msg.job, cacheKey, NoRequest,
                        IF caches THEN <<"cache.set", "setState">>
                        ELSE <<"setState">>)

\* worker.onmessage, case 'progress'
onProgress(msg) ==
    /\ state' = [state EXCEPT !.progress = msg.progress]
    /\ last' = Step("onmessage", "progress", msg.job, NoKey, NoRequest,
                    <<"setState">>)
    /\ UNCHANGED cache

\* worker.onmessage, case 'error'
onError(msg) ==
    /\ state' = [state EXCEPT !.isRunning = FALSE, !.progress = Frac(0, 1),
                              !.error = msg.error]
    /\ last' = Step("onmessage", "error", msg.job, NoKey, NoRequest,
                    <<"setState">>)
    /\ UNCHANGED cache

\* worker.onmessage, case 'initialized' and the types the switch has no case for
onOther(msg) ==
    /\ UNCHANGED <<state, cache, last>>

\* the hook's worker.onmessage on the oldest undelivered message
onmessage ==
    /\ toMain # <<>>
    /\ LET msg == Head(toMain) IN
       CASE msg.type = "complete" -> onComplete(msg)
         [] msg.type = "progress" -> onProgress(msg)
         [] msg.type = "error"    -> onError(msg)
         [] OTHER                 -> onOther(msg)
    /\ toMain' = Tail(toMain)
    /\ UNCHANGED <<workerRef, toWorker, isInitialized,
                   initAwait, workerBuild, now, dispatched, cancelled, swrData, calibrationCache, keyA, keyB,
                   client, sockets, timers>>

----------------------------------------------------------------------------
(* The simulation worker *)

\* what `new MonteCarloEngine(..)` and `run_batch(..)` can do (the engine is
\* the sim-wasm package): throw, or return an array of len JSON strings, each
\* of which parses
EngineOutcomes ==
    {[throws |-> TRUE, len |-> 0]} \cup {[throws |-> FALSE, len |-> n] : n \in 0..MaxResults}

\* the result of a run: what it was computed from
SimResult(msg) ==
    [job |-> msg.job, target |-> msg.target, inputs |-> msg.inputs,
     paths |-> msg.paths]

\* job: the run the error came from, 0 for initWasm
ErrorMsg(text, job) == [type |-> "error", job |-> job, error |-> text]

ProgressMsg(msg, i, n) ==
    [type |-> "progress", job |-> msg.job, progress |-> Frac((i + 1) * 100, n)]

CompleteMsg(msg) ==
    [type |-> "complete", job |-> msg.job, result |-> SimResult(msg),
     cacheKey |-> msg.cacheKey]

\* postsPart004 with the percentage taken over the whole array
postsPart004_overWholeArray(msg, outcome) ==
    IF outcome.throws \/ outcome.len = 0
    THEN <<ErrorMsg("Simulation failed", msg.job)>>
    ELSE [i \in 1..(outcome.len - 1) |-> ProgressMsg(msg, i - 1, outcome.len)]
             \o <<CompleteMsg(msg)>>

\* unnamed/part_004: every element but the last is a progress snapshot, the
\* last element is the final payload
postsPart004(msg, outcome) ==
    IF outcome.throws \/ outcome.len = 0
    THEN <<ErrorMsg("Simulation failed", msg.job)>>
    ELSE [i \in 1..(outcome.len - 1) |-> ProgressMsg(msg, i - 1, outcome.len - 1)]
             \o <<CompleteMsg(msg)>>

\* workers/simulation.worker.ts: every element is a progress snapshot and the
\* last one is also the final result; JSON.parse(results[-1]) throws on an
\* empty array
postsWorkerTs(msg, outcome) ==
    IF outcome.throws \/ outcome.len = 0
    THEN <<ErrorMsg("Simulation failed", msg.job)>>
    ELSE [i \in 1..outcome.len |-> ProgressMsg(msg, i - 1, outcome.len)]
             \o <<CompleteMsg(msg)>>

\* runSimulation (worker) going on after the 'WASM not initialized' error
workerRunSimulation_withoutReturn(msg, outcome) ==
    (IF ~isInitialized THEN <<ErrorMsg("WASM not initialized", msg.job)>> ELSE <<>>)
        \o (IF workerBuild = "part_004"
            THEN postsPart004(msg, outcome)
            ELSE postsWorkerTs(msg, outcome))

\* runSimulation (worker) returning without an answer when the module is not
\* initialised
workerRunSimulation_silentReturn(msg, outcome) ==
    IF ~isInitialized
    THEN <<>>
    ELSE IF workerBuild = "part_004"
    THEN postsPart004(msg, outcome)
    ELSE postsWorkerTs(msg, outcome)

\* the messages runSimulation (worker) posts, in order
workerRunSimulation(msg, outcome) ==
    IF ~isInitialized
    THEN <<ErrorMsg("WASM not initialized", msg.job)>>
    ELSE IF workerBuild = "part_004"
    THEN postsPart004(msg, outcome)
    ELSE postsWorkerTs(msg, outcome)

\* message listener, case 'init': initWasm runs up to `await init(wasmPath)`
workerInit ==
    /\ toWorker # <<>>
    /\ Head(toWorker).type = "init"
    /\ toWorker' = Tail(toWorker)
    /\ initAwait' = TRUE
    /\ UNCHANGED <<state, workerRef, toMain, isInitialized,
                   workerBuild, cache, now, dispatched, cancelled, swrData, calibrationCache, last, keyA, keyB,
                   client, sockets, timers>>

\* initWasm resumes: init resolved (ok) or rejected
workerInitSettled(ok) ==
    /\ initAwait
    /\ initAwait' = FALSE
    /\ isInitialized' = (isInitialized \/ ok)
    /\ toMain' = Append(toMain, IF ok THEN [type |-> "initialized"]
                                ELSE ErrorMsg("Failed to initialize WASM", 0))
    /\ UNCHANGED <<state, workerRef, toWorker, workerBuild,
                   cache, now, dispatched, cancelled, swrData, calibrationCache, last, keyA, keyB,
                   client, sockets, timers>>

\* message listener, case 'run': runSimulation has no await inside, so the
\* whole run and all its postMessage calls happen in this one handler
workerRun(outcome) ==
    /\ toWorker # <<>>
    /\ Head(toWorker).type = "run"
    /\ toMain' = toMain \o workerRunSimulation(Head(toWorker), outcome)
    /\ toWorker' = Tail(toWorker)
    /\ UNCHANGED <<state, workerRef, isInitialized, initAwait,
                   workerBuild, cache, now, dispatched, cancelled, swrData, calibrationCache, last, keyA, keyB,
                   client, sockets, timers>>

\* message listener, case 'stop': between handlers engine is always null
\* (runSimulation's finally frees it), so only 'stopped' is posted
workerStop ==
    /\ toWorker # <<>>
    /\ Head(toWorker).type = "stop"
    /\ toWorker' = Tail(toWorker)
    /\ toMain' = Append(toMain, [type |-> "stopped"])
    /\ UNCHANGED <<state, workerRef, isInitialized, initAwait,
                   workerBuild, cache, now, dispatched, cancelled, swrData, calibrationCache, last, keyA, keyB,
                   client, sockets, timers>>

----------------------------------------------------------------------------
(* The clock *)

\* the clock advances by d ms
Tick(d) ==
    /\ now + d <= MaxTicks * TickMs
    /\ now' = now + d
    /\ UNCHANGED <<state, workerRef, toWorker, toMain,
                   isInitialized, initAwait, workerBuild, cache, dispatched,
                   cancelled, swrData, calibrationCache, last, keyA, keyB,
                   client, sockets, timers>>

----------------------------------------------------------------------------
(* The hook, its worker and the cache together *)

Init ==
    /\ state = [isRunning |-> FALSE, progress |-> Frac(0, 1), result |-> NoResult,
                error |-> NoError]
    /\ workerRef = FALSE
    /\ toWorker = <<>>
    /\ toMain = <<>>
    /\ isInitialized = FALSE
    /\ initAwait = FALSE
    /\ workerBuild \in WorkerBuilds
    /\ cache = <<>>
    /\ now = 0
    /\ dispatched = 0
    /\ cancelled = {}
    /\ swrData = NoCalibration
    /\ calibrationCache = [data |-> NoCalibration, timestamp |-> 0]
    /\ last = Step("init", "init", 0, NoKey, NoRequest, <<>>)
    /\ keyA = NoKey
    /\ keyB = NoKey
    /\ client = NoClient
    /\ sockets = <<>>
    /\ timers = NoTimers

Next ==
    \/ Mount
    \/ \E m \in Markets, s \in Sensitivities, p \in PathChoices,
          pr \in Prices, c \in Calibrations :
            runSimulation(m, s, p, pr, c)
    \/ stopSimulation
    \/ onmessage
    \/ workerInit
    \/ \E ok \in BOOLEAN : workerInitSettled(ok)
    \/ \E o \in EngineOutcomes : workerRun(o)
    \/ workerStop
    \/ Tick(TickMs)

Spec == Init /\ [][Next]_vars

\* the same hook, worker and cache, called with several request shapes
NextInputs ==
    \/ Mount
    \/ \E m \in MarketsWide, s \in Sensitivities, p \in PathChoicesWide,
          pr \in PricesWide, c \in CalibrationsWide :
            runSimulation(m, s, p, pr, c)
    \/ stopSimulation
    \/ onmessage
    \/ workerInit
    \/ \E ok \in BOOLEAN : workerInitSettled(ok)
    \/ \E o \in EngineOutcomes : workerRun(o)
    \/ workerStop
    \/ Tick(TickMs)

SpecInputs == Init /\ [][NextInputs]_vars

----------------------------------------------------------------------------
(* Claims about the job controller, the worker and the cache together *)

\* C1 (as claimed): a job that was running when stopSimulation was called
\* never has its result published to the hook state, and never has its
\* result written to the cache.
C1_CancelledJobLeavesNoResult ==
    /\ state.result.job \notin cancelled
    /\ \A i \in 1..Len(cache) : cache[i].result.job \notin cancelled

\* C2 (as claimed): only the most recent submission produces a 'complete'
\* that the controller handles (publishes and caches): a job that was
\* replaced by a later runSimulation, and not stopped, never does.
C2_OnlyLatestJobCompletes ==
    (last.op = "onmessage" /\ last.outcome = "complete")
        => (last.job = dispatched \/ last.job \in cancelled)

\* the hook's last step ended a job: it handled the job's 'complete' or
\* 'error', or it was a stopSimulation call made while the job was running
Terminal ==
    \/ last.op = "onmessage" /\ last.outcome \in {"complete", "error"} /\ last.job > 0
    \/ last.op = "stopSimulation" /\ last.job \in cancelled

\* C3 (as claimed): once a job has ended, no message a run has posted
\* changes isRunning, progress, result or error before the next
\* runSimulation call.
C3_TerminalStateAbsorbing ==
    [][(Terminal /\ onmessage /\ Head(toMain).type \in {"progress", "complete", "error"}
            /\ Head(toMain).job > 0)
          => state' = state]_vars

ProgressAt(j) ==
    {i \in 1..Len(toMain) : toMain[i].type = "progress" /\ toMain[i].job = j}

CompleteAt(j) ==
    {i \in 1..Len(toMain) : toMain[i].type = "complete" /\ toMain[i].job = j}

\* C4: among the messages a run has posted and the hook has not yet handled,
\* the progress percentages strictly increase in posting order, the last of
\* them is 100, and the run's 'complete' comes after all of them.
C4_ProgressOrderedThenComplete ==
    \A j \in 1..dispatched :
        /\ \A a, b \in ProgressAt(j) :
              a < b => FracLess(toMain[a].progress, toMain[b].progress)
        /\ ProgressAt(j) # {} =>
              /\ \E a \in ProgressAt(j) :
                    /\ \A b \in ProgressAt(j) : b <= a
                    /\ toMain[a].progress = Frac(100, 1)
              /\ CompleteAt(j) # {}
        /\ \A c \in CompleteAt(j), a \in ProgressAt(j) : a < c

\* a run's progress messages and its 'complete' are waiting, two of the
\* progress messages among them
C4_Witness ==
    \E j \in 1..dispatched :
        /\ Cardinality(ProgressAt(j)) >= 2
        /\ CompleteAt(j) # {}

\* C5: when the hook's last step handled a 'complete' that carried a cache
\* key and a result, the handler wrote the cache before it set the state,
\* and the cache holds the published result under the key's fingerprint.
C5_CacheWrittenBeforePublish ==
    (/\ last.op = "onmessage"
     /\ last.outcome = "complete"
     /\ last.key # NoKey
     /\ state.result # NoResult)
    => /\ last.effects = <<"cache.set", "setState">>
       /\ \E i \in 1..Len(cache) :
             /\ cache[i].fp = generateKey(last.key)
             /\ cache[i].result = state.result

C5_Witness ==
    /\ last.op = "onmessage"
    /\ last.outcome = "complete"
    /\ last.key # NoKey
    /\ state.result # NoResult
    /\ state.result.job = last.job

\* the calibration-derived model parameters of a SimInputs bundle
ModelParams(inputs) ==
    <<inputs.theta, inputs.pi0, inputs.lambda, inputs.mu_j, inputs.sigma_j,
      inputs.kind>>

\* C9 (as claimed): a result served from the cache was computed from the
\* target, the calibration-derived model parameters and the path count of
\* the request it is served to.
C9_CacheHitSameInputs ==
    (last.op = "runSimulation" /\ last.outcome = "hit") =>
        /\ state.result.target = last.request.target
        /\ ModelParams(state.result.inputs) = ModelParams(last.request.inputs)
        /\ state.result.paths = last.request.paths

\* an entry of the cache that get would still return at time t
Fresh(c, fp, t) ==
    {i \in 1..Len(c) : c[i].fp = fp /\ t - c[i].timestamp <= maxAge}

\* C10: a runSimulation call that passes the data and target checks sets
\* the state to the cached result and posts nothing when the cache holds an
\* unexpired entry for the request's fingerprint, and otherwise posts
\* exactly one 'run' message, carrying the request's cache key.
C10_CacheConsultedBeforeRun ==
    [][\A m \in Markets, s \in Sensitivities, p \in PathChoices,
          pr \in Prices, c \in Calibrations :
        (/\ runSimulation(m, s, p, pr, c)
         /\ workerRef /\ pr # 0 /\ c # NoCalibration
         /\ prepareTarget(m) # NoTarget)
        => LET key == runCacheKey(m, s, pr, now)
               fresh == Fresh(cache, generateKey(key), now)
           IN  IF fresh # {}
               THEN /\ \E i \in fresh :
                         state' = [isRunning |-> FALSE, progress |-> Frac(100, 1),
                                   result |-> cache[i].result, error |-> NoError]
                    /\ toWorker' = toWorker
               ELSE /\ Len(toWorker') = Len(toWorker) + 1
                    /\ SubSeq(toWorker', 1, Len(toWorker)) = toWorker
                    /\ toWorker'[Len(toWorker')].type = "run"
                    /\ toWorker'[Len(toWorker')].cacheKey = key
      ]_vars

\* a request was served from the cache after an earlier entry for the same
\* fingerprint had expired and a second run had refilled it
C10_Witness ==
    /\ last.op = "runSimulation"
    /\ last.outcome = "hit"
    /\ dispatched = 2
    /\ now > 0
    /\ state.result.job = 2

----------------------------------------------------------------------------
(* The cache on its own: get, set and clear called on a cache that is      *)
(* empty or one entry short of full                                        *)

DefaultSensitivity == [volatilityMultiplier |-> 100, jumpIntensityMultiplier |-> 100,
                       jumpSizeMultiplier |-> 100]

\* the cache key of a request at a live price of d dollars
DollarKey(d) == [marketTicker |-> MarketAbove.ticker, s0 |-> d * 100,
                 timeToClose |-> MsPerHour, sensitivity |-> DefaultSensitivity]

\* the result of the n-th simulation
ResultNo(n) == [NoResult EXCEPT !.job = n]

\* the cache after set was called at time 0 for the prices $1 .. $k
Prefilled(k) ==
    [i \in 1..k |-> [fp |-> generateKey(DollarKey(i)), result |-> ResultNo(i),
                     timestamp |-> 0]]

PrefillSizes == {0, maxSize - 1}

\* the oldest prefilled price, and two prices not prefilled
CacheDollars == {1, maxSize, maxSize + 1}

\* the result a set call stores in this specification
StoredResult == ResultNo(maxSize + 1)

TickSteps == {maxAge, TickMs}

CacheStep(op, key, ret, before, after) ==
    [op |-> op, key |-> key, ret |-> ret, before |-> before, after |-> after]

cacheGet(key) ==
    /\ LET got == SimulationCache_get(cache, key, now) IN
       /\ cache' = got.cache
       /\ last' = CacheStep("get", key, got.ret, Len(cache), Len(got.cache))
    /\ UNCHANGED <<state, workerRef, toWorker, toMain, isInitialized, initAwait,
                   workerBuild, now, dispatched, cancelled, swrData, calibrationCache, keyA, keyB,
                   client, sockets, timers>>

cacheSet(key, result) ==
    /\ cache' = SimulationCache_set(cache, key, result, now)
    /\ last' = CacheStep("set", key, result, Len(cache), Len(cache'))
    /\ UNCHANGED <<state, workerRef, toWorker, toMain, isInitialized, initAwait,
                   workerBuild, now, dispatched, cancelled, swrData, calibrationCache, keyA, keyB,
                   client, sockets, timers>>

cacheClear ==
    /\ cache' = SimulationCache_clear(cache)
    /\ last' = CacheStep("clear", NoKey, NoResult, Len(cache), 0)
    /\ UNCHANGED <<state, workerRef, toWorker, toMain, isInitialized, initAwait,
                   workerBuild, now, dispatched, cancelled, swrData, calibrationCache, keyA, keyB,
                   client, sockets, timers>>

InitCache ==
    /\ state = [isRunning |-> FALSE, progress |-> Frac(0, 1), result |-> NoResult,
                error |-> NoError]
    /\ workerRef = FALSE
    /\ toWorker = <<>>
    /\ toMain = <<>>
    /\ isInitialized = FALSE
    /\ initAwait = FALSE
    /\ workerBuild = "part_004"
    /\ cache \in {Prefilled(k) : k \in PrefillSizes}
    /\ now = 0
    /\ dispatched = 0
    /\ cancelled = {}
    /\ swrData = NoCalibration
    /\ calibrationCache = [data |-> NoCalibration, timestamp |-> 0]
    /\ last = CacheStep("init", NoKey, NoResult, 0, 0)
    /\ keyA = NoKey
    /\ keyB = NoKey
    /\ client = NoClient
    /\ sockets = <<>>
    /\ timers = NoTimers

NextCache ==
    \/ \E d \in CacheDollars : cacheGet(DollarKey(d))
    \/ \E d \in CacheDollars : cacheSet(DollarKey(d), StoredResult)
    \/ cacheClear
    \/ \E d \in TickSteps : Tick(d)

SpecCache == InitCache /\ [][NextCache]_vars

\* C6: the cache never holds more than 50 entries.
C6_CacheAtMostMaxSize == Len(cache) <= 50

\* set was called on a full cache with a fingerprint it did not hold
C6_Witness ==
    /\ last.op = "set"
    /\ last.before = maxSize
    /\ Len(cache) = maxSize
    /\ cache[Len(cache)].fp = generateKey(last.key)
    /\ cache[Len(cache)].timestamp = now

\* the entries of c with fingerprint fp
EntriesOf(c, fp) == {i \in 1..Len(c) : c[i].fp = fp}

\* C7: get returns the stored result exactly when an entry for the key's
\* fingerprint exists and was written at most 60000 ms before the read, and
\* null otherwise; an expired entry it touched is gone afterwards, and
\* nothing else changes.
C7_GetReturnsUnexpiredOnly ==
    [][\A d \in CacheDollars :
        cacheGet(DollarKey(d)) =>
            LET fp == generateKey(DollarKey(d))
                live == {i \in EntriesOf(cache, fp) : now - cache[i].timestamp <= 60000}
            IN  IF live # {}
                THEN /\ \E i \in live : last'.ret = cache[i].result
                     /\ last'.ret # NoResult
                     /\ cache' = cache
                ELSE /\ last'.ret = NoResult
                     /\ EntriesOf(cache', fp) = {}
                     /\ cache' = SelectSeq(cache, LAMBDA e : e.fp # fp)
      ]_vars

\* get touched an entry older than 60000 ms: it returned null and the entry
\* is gone
C7_Witness ==
    /\ last.op = "get"
    /\ last.ret = NoResult
    /\ last.after = last.before - 1
    /\ EntriesOf(cache, generateKey(last.key)) = {}

C18_ReadsLeaveCacheUnchanged ==
    [][\A d \in CacheDollars :
        LET at == EntriesOf(cache, generateKey(DollarKey(d))) IN
        (/\ cacheGet(DollarKey(d))
         /\ \/ at = {}
            \/ \E i \in at : now - cache[i].timestamp <= 60000)
        => cache' = cache
      ]_vars

\* get returned a result stored 60000 ms before the read
C18_Witness ==
    /\ last.op = "get"
    /\ last.ret # NoResult
    /\ now = maxAge
    /\ \E i \in EntriesOf(cache, generateKey(last.key)) :
           /\ cache[i].result = last.ret
           /\ cache[i].timestamp = 0

\* C22: set on a fingerprint that is already in the cache only replaces that
\* entry's result and timestamp: no other entry is removed, also when the
\* cache holds 50 entries.
C22_SetOnPresentKeyReplacesOnly ==
    [][\A d \in CacheDollars :
        (/\ cacheSet(DollarKey(d), StoredResult)
         /\ EntriesOf(cache, generateKey(DollarKey(d))) # {})
        => /\ Len(cache') = Len(cache)
           /\ \A i \in 1..Len(cache) :
                  IF cache[i].fp = generateKey(DollarKey(d))
                  THEN cache'[i] = [fp |-> cache[i].fp, result |-> StoredResult,
                                    timestamp |-> now]
                  ELSE cache'[i] = cache[i]
      ]_vars

----------------------------------------------------------------------------
(* The fingerprint on its own: a result is stored under one key and read   *)
(* back under a perturbed key                                              *)

\* live prices in cents around $100: whole dollars and prices in between
BaseS0 == {9900, 9960, 10000, 10040, 10050, 10100}

\* times to close in ms around 1 h: multiples of 0.1 h and times in between
BaseT == {MsPerHour - 360000, MsPerHour - 100000, MsPerHour, MsPerHour + 100000,
          MsPerHour + 180000, MsPerHour + 360000}

\* perturbations of s0 in cents: up to $0.49 either way, and $0.51
S0Shifts == {0 - 51, 0 - 49, 0 - 25, 25, 49, 51}

\* perturbations of timeToClose in ms: up to 0.04 h either way
TShifts == {0 - 144000, 0 - 72000, 72000, 144000}

KeyOf(s0, t) == [marketTicker |-> MarketAbove.ticker, s0 |-> s0, timeToClose |-> t,
                 sensitivity |-> DefaultSensitivity]

\* set(keyA, result) on an empty cache, then get(keyA perturbed by ds, dt)
Perturb(ds, dt) ==
    /\ keyA # NoKey
    /\ keyB' = [keyA EXCEPT !.s0 = @ + ds, !.timeToClose = @ + dt]
    /\ LET stored == SimulationCache_set(<<>>, keyA, StoredResult, now)
           got == SimulationCache_get(stored, keyB', now)
       IN  /\ cache' = got.cache
           /\ last' = [op |-> "perturb", ds |-> ds, dt |-> dt,
                       hit |-> (got.ret = StoredResult)]
    /\ UNCHANGED <<state, workerRef, toWorker, toMain, isInitialized, initAwait,
                   workerBuild, now, dispatched, cancelled, swrData, calibrationCache, keyA,
                   client, sockets, timers>>

\* another request arrives: a new base key
NewKey(s0, t) ==
    /\ keyA' = KeyOf(s0, t)
    /\ keyB' = keyA'
    /\ cache' = <<>>
    /\ last' = [op |-> "key", ds |-> 0, dt |-> 0, hit |-> FALSE]
    /\ UNCHANGED <<state, workerRef, toWorker, toMain, isInitialized, initAwait,
                   workerBuild, now, dispatched, cancelled, swrData, calibrationCache,
                   client, sockets, timers>>

InitKey ==
    /\ state = [isRunning |-> FALSE, progress |-> Frac(0, 1), result |-> NoResult,
                error |-> NoError]
    /\ workerRef = FALSE
    /\ toWorker = <<>>
    /\ toMain = <<>>
    /\ isInitialized = FALSE
    /\ initAwait = FALSE
    /\ workerBuild = "part_004"
    /\ cache = <<>>
    /\ now = 0
    /\ dispatched = 0
    /\ cancelled = {}
    /\ swrData = NoCalibration
    /\ calibrationCache = [data |-> NoCalibration, timestamp |-> 0]
    /\ last = [op |-> "key", ds |-> 0, dt |-> 0, hit |-> FALSE]
    /\ keyA \in {KeyOf(s0, t) : s0 \in BaseS0, t \in BaseT}
    /\ keyB = keyA
    /\ client = NoClient
    /\ sockets = <<>>
    /\ timers = NoTimers

NextKey ==
    \/ \E ds \in S0Shifts : Perturb(ds, 0)
    \/ \E dt \in TShifts : Perturb(0, dt)
    \/ \E s0 \in BaseS0, t \in BaseT : NewKey(s0, t)

SpecKey == InitKey /\ [][NextKey]_vars

Abs(x) == IF x < 0 THEN 0 - x ELSE x

\* what the claim says of a perturbation by ds cents or dt ms: a hit up to
\* $0.49 or up to 0.04 h, a miss at $0.51
PerturbationAsClaimed ==
    /\ (last.dt = 0 /\ Abs(last.ds) <= 49) => last.hit
    /\ (last.ds = 0 /\ Abs(last.dt) <= 144000) => last.hit
    /\ (last.dt = 0 /\ Abs(last.ds) = 51) => ~last.hit

\* C8 (as claimed): whatever the first key, a perturbation of its s0 by up to
\* $0.49 or of its timeToClose by up to 0.04 h reads back the result stored
\* under it (same fingerprint), and a perturbation of s0 by $0.51 does not.
C8_PerturbationAnyKey ==
    last.op = "perturb" => PerturbationAsClaimed

\* s0 is a whole dollar amount and timeToClose a whole multiple of 0.1 h
Centred(key) ==
    /\ key.s0 % 100 = 0
    /\ (key.timeToClose * 10) % MsPerHour = 0

\* C8 (amended): when the first key's s0 is a whole dollar amount and its
\* timeToClose a whole multiple of 0.1 h, a perturbation of s0 by up to $0.49
\* or of timeToClose by up to 0.04 h reads back the result stored under the
\* first key, and a perturbation of s0 by $0.51 does not.
C8_PerturbationCentredKey ==
    (last.op = "perturb" /\ Centred(keyA)) => PerturbationAsClaimed

\* $100.00 and 1.0 h were perturbed to $100.49: a hit
C8_Witness ==
    /\ last.op = "perturb"
    /\ Centred(keyA)
    /\ last.ds = 49
    /\ last.hit
    /\ keyB.s0 = keyA.s0 + 49

----------------------------------------------------------------------------
(* The hook called with every kind of request: sound, untargeted and       *)
(* ill-formed markets, data loaded or missing                              *)

NextRequests ==
    \/ Mount
    \/ \E m \in MarketsAll, s \in Sensitivities, p \in PathChoices,
          pr \in PricesWide, c \in CalibrationsLoaded :
            runSimulation(m, s, p, pr, c)
    \/ onmessage
    \/ workerInit
    \/ \E ok \in BOOLEAN : workerInitSettled(ok)
    \/ \E o \in EngineOutcomes : workerRun(o)

SpecRequests == Init /\ [][NextRequests]_vars

\* the Target invariants: {above, K > 0} or {range, 0 < L < U}
TargetSound(target) ==
    \/ target.kind = "above" /\ target.K # Undefined /\ target.K > 0
    \/ /\ target.kind = "range"
       /\ target.L # Undefined /\ target.U # Undefined
       /\ 0 < target.L /\ target.L < target.U

\* C11 (as claimed): a runSimulation call with the worker, the price and the
\* calibration present, for a market whose target breaks the Target
\* invariants, sets an error and posts nothing to the worker.
C11_InvalidTargetRejected ==
    [][\A m \in MarketsAll, s \in Sensitivities, p \in PathChoices,
          pr \in PricesWide, c \in CalibrationsLoaded :
        (/\ runSimulation(m, s, p, pr, c)
         /\ workerRef /\ pr # 0 /\ c # NoCalibration
         /\ ~TargetSound(prepareTarget(m)))
        => /\ state'.error # NoError
           /\ toWorker' = toWorker
      ]_vars

\* the hook called while the worker, the price, the calibration or the
\* market's target may be missing
NextEarly ==
    \/ Mount
    \/ \E m \in MarketsWide, s \in Sensitivities, p \in PathChoices,
          pr \in PricesWide, c \in CalibrationsLoaded :
            runSimulation(m, s, p, pr, c)
    \/ onmessage
    \/ workerInit
    \/ \E ok \in BOOLEAN : workerInitSettled(ok)
    \/ \E o \in EngineOutcomes : workerRun(o)

SpecEarly == Init /\ [][NextEarly]_vars

\* C19: a runSimulation call without a worker, a price or a calibration, or
\* for a market that yields no target, changes only the error field (to the
\* message of its case), leaves the cache and the worker's inbox alone and
\* does not read the cache.
C19_EarlyReturnSetsOnlyError ==
    [][\A m \in MarketsWide, s \in Sensitivities, p \in PathChoices,
          pr \in PricesWide, c \in CalibrationsLoaded :
        LET missing == ~workerRef \/ pr = 0 \/ c = NoCalibration
            untargeted == prepareTarget(m) = NoTarget
        IN  (runSimulation(m, s, p, pr, c) /\ (missing \/ untargeted))
            => /\ state' = [state EXCEPT !.error =
                               IF missing THEN "Missing required data for simulation"
                               ELSE "Invalid market target"]
               /\ cache' = cache
               /\ toWorker' = toWorker
               /\ last'.effects = <<"setState">>
      ]_vars

\* an early return happened while a job was running and had reported
\* progress, with an earlier result in the cache
C19_Witness ==
    /\ last.op = "runSimulation"
    /\ last.outcome \in {"missing", "invalid"}
    /\ state.isRunning
    /\ FracLess(Frac(0, 1), state.progress)
    /\ state.error # NoError

----------------------------------------------------------------------------
(* The calibrator: GET /api/calibrate, and the hook run on what it returns. *)
(* Returns are in thousandths (0.001), volatilities in thousandths, jump    *)
(* lambda and sigma_j in hundredths, probabilities in percent.              *)

\* lambda 0.1, muJ 0, sigmaJ 0.02
DEFAULT_JUMP_PARAMS == [lambda |-> 10, muJ |-> 0, sigmaJ |-> 2, kind |-> "merton"]

\* Math.sqrt(DEFAULT_HESTON_PARAMS.theta) = sqrt(0.04) = 0.2
SqrtDefaultTheta == 200

Min(a, b) == IF a <= b THEN a ELSE b

RECURSIVE Sum(_)
Sum(seq) == IF seq = <<>> THEN 0 ELSE Head(seq) + Sum(Tail(seq))

\* n^2 times the sum of squared deviations from the mean, n = Len(returns)
SumSqDev(returns) ==
    LET n == Len(returns)
        S == Sum(returns)
    IN  Sum([i \in 1..n |-> (n * returns[i] - S) * (n * returns[i] - S)])

\* realizedVolatility(returns) < c, for c > 0 in thousandths: the volatility
\* is 0 for fewer than 2 returns, else sqrt(sum (r - mean)^2 / (n - 1))
VolBelow(returns, c) ==
    LET n == Len(returns) IN
    IF n < 2 THEN TRUE
    ELSE SumSqDev(returns) < c * c * n * n * (n - 1)

\* the returns r with |r - mean| > threshold * realizedVolatility(returns);
\* with no returns the mean is NaN and nothing passes the filter
detectJumps(returns, threshold) ==
    LET n == Len(returns)
        S == Sum(returns)
        D == SumSqDev(returns)
    IN  IF n = 0 THEN <<>>
        ELSE IF n = 1 THEN SelectSeq(returns, LAMBDA r : FALSE)
        ELSE SelectSeq(returns, LAMBDA r :
                 (n * r - S) * (n * r - S) * (n - 1) > threshold * threshold * D)


\* Math.max(0.01, Math.min(0.1, sample deviation of log|j|)) in hundredths.
\* One jump: 0 / 0 under the root, NaN through both clamps.  Jumps of one
\* magnitude: deviation 0, clamped up to 0.01.  Otherwise the magnitudes of
\* MinuteReturns differ by a factor of 2 or more, the deviation of at most 25
\* logs is then at least ln 2 / sqrt(48) > 0.1, clamped down to 0.1.
sigmaOfLogJumps(jumps) ==
    LET mags == {IF jumps[i] < 0 THEN 0 - jumps[i] ELSE jumps[i] : i \in 1..Len(jumps)}
    IN  IF Len(jumps) = 1 THEN NaN
        ELSE IF Cardinality(mags) = 1 THEN 1
        ELSE 10

estimateJumpParams_kou(returns) ==
    IF Len(detectJumps(returns, 3)) = 0 THEN DEFAULT_JUMP_PARAMS
    ELSE [lambda  |-> 1, mu_j |-> 0, sigma_j |-> 1, kind |-> "kou"]

estimateJumpParams(returns) ==
    LET jumps == detectJumps(returns, 3) IN
    IF Len(jumps) = 0 THEN DEFAULT_JUMP_PARAMS
    ELSE [lambda  |-> Max(1, Min(100, (100 * Len(jumps)) \div Len(returns))),
          mu_j    |-> 0,
          sigma_j |-> sigmaOfLogJumps(jumps),
          kind    |-> "merton"]

\* bullScore and bearScore in percent
regimeOf(recentReturns) ==
    LET bullScore == (IF Sum(recentReturns) > 0 THEN 60 ELSE 40)
                     + (IF VolBelow(recentReturns, 20) THEN 20 ELSE 0)
        bearScore == 100 - bullScore
    IN  [current       |-> IF bullScore > bearScore THEN "BULL" ELSE "BEAR",
         probabilities |-> <<bullScore, bearScore>>]

detectRegime_overAllReturns(returns) ==
    IF Len(returns) < 10
    THEN [current |-> "BULL", probabilities |-> <<50, 50>>]
    ELSE regimeOf(returns)

detectRegime(returns) ==
    IF Len(returns) < 10
    THEN [current |-> "BULL", probabilities |-> <<50, 50>>]
    ELSE regimeOf(SubSeq(returns, Max(1, Len(returns) - 19), Len(returns)))

\* JSON.stringify followed by JSON.parse: NaN becomes null
jsonNumber(x) == IF x = NaN THEN Null ELSE x

jsonBody(data) ==
    [data EXCEPT !.jumps = [f \in DOMAIN data.jumps |->
                               IF f = "kind" THEN data.jumps[f]
                               ELSE jsonNumber(data.jumps[f])]]

\* ---- what the three candle fetches can deliver ----
\* minute returns: n returns of value a, the first and the final replaced
Flat(n, a, first, final) ==
    [i \in 1..n |-> IF i = 1 THEN first ELSE IF i = n THEN final ELSE a]

\* minute returns swinging between hi and lo
Swing(n, hi, lo) == [i \in 1..n |-> IF i % 2 = 1 THEN hi ELSE lo]

ReturnLengths == {0, 1, 9, 10, 20, 25, 50}

MinuteReturns ==
    UNION {{Flat(n, a, first, final) : first \in {a, 20, 40}, final \in {a, 0 - 20, 20}} :
              n \in ReturnLengths, a \in {0 - 1, 0, 1}}
    \cup {Swing(n, 30, 0 - 28) : n \in ReturnLengths}
    \cup {Swing(n, 28, 0 - 30) : n \in ReturnLengths}

\* the volatilities computed from the hourly and daily candles
FetchedRVs == [blendedDailyRV |-> 150, weeklyRV |-> 250, intradayRV |-> 180]

FetchFailed == [ok |-> FALSE]

FetchOutcomes ==
    {FetchFailed} \cup {[ok |-> TRUE, minuteReturns |-> r] : r \in MinuteReturns}

\* a quiet hour, an hour with one jump, with two jumps of one size, and with
\* two jumps of different sizes
MinuteReturnsFew ==
    {Flat(20, 0, 0, 0), Flat(20, 0, 20, 0), Flat(20, 0, 20, 0 - 20),
     Flat(50, 0, 40, 0 - 20)}

FetchOutcomesFew ==
    {FetchFailed} \cup {[ok |-> TRUE, minuteReturns |-> r] : r \in MinuteReturnsFew}

calibrationDataOf(fetched, t) ==
    [dailyRV    |-> FetchedRVs.blendedDailyRV,
     weeklyRV   |-> FetchedRVs.weeklyRV,
     intradayRV |-> FetchedRVs.intradayRV,
     jumps      |-> estimateJumpParams(fetched.minuteReturns),
     regime     |-> detectRegime(fetched.minuteReturns),
     timestamp  |-> t]

defaultData(t) ==
    [dailyRV    |-> SqrtDefaultTheta,
     weeklyRV   |-> SqrtDefaultTheta,
     intradayRV |-> SqrtDefaultTheta,
     jumps      |-> DEFAULT_JUMP_PARAMS,
     regime     |-> [current |-> "BULL", probabilities |-> <<50, 50>>],
     timestamp  |-> t]

\* GET /api/calibrate, and useSWR storing the body it answers with
GET(fetched) ==
    LET cached == /\ calibrationCache.data # NoCalibration
                  /\ now - calibrationCache.timestamp < CACHE_TTL
        body   == IF cached THEN jsonBody(calibrationCache.data)
                  ELSE IF fetched.ok THEN jsonBody(calibrationDataOf(fetched, now))
                  ELSE jsonBody(defaultData(now))
    IN  /\ calibrationCache' =
              IF ~cached /\ fetched.ok
              THEN [data |-> calibrationDataOf(fetched, now), timestamp |-> now]
              ELSE calibrationCache
        /\ swrData' = body
        /\ last' = [op      |-> "GET",
                    outcome |-> IF cached THEN "cached"
                                ELSE IF fetched.ok THEN "computed" ELSE "default",
                    status  |-> 200,
                    body    |-> body]
        /\ UNCHANGED <<state, workerRef, toWorker, toMain, isInitialized, initAwait,
                       workerBuild, cache, now, dispatched, cancelled, keyA, keyB,
                   client, sockets, timers>>

\* the route's clock passes the cache lifetime
RouteTick ==
    /\ now + CACHE_TTL <= MaxTicks * CACHE_TTL
    /\ now' = now + CACHE_TTL
    /\ last' = [op |-> "tick"]
    /\ UNCHANGED <<state, workerRef, toWorker, toMain, isInitialized, initAwait,
                   workerBuild, cache, dispatched, cancelled, swrData,
                   calibrationCache, keyA, keyB,
                   client, sockets, timers>>

SensitivityDoubled ==
    [volatilityMultiplier |-> 100, jumpIntensityMultiplier |-> 200,
     jumpSizeMultiplier |-> 200]

SensitivitiesJump == {NoSensitivity, SensitivityDoubled}

\* the panel runs the simulation on the calibration useCalibration holds
runOnCalibration ==
    \E m \in Markets, s \in SensitivitiesJump, p \in PathChoices, pr \in Prices :
        runSimulation(m, s, p, pr, swrData)

\* the route, the hook holding its answer, and runs on that answer
NextCalibrate ==
    \/ Mount
    \/ \E fetched \in FetchOutcomesFew : GET(fetched)
    \/ RouteTick
    \/ runOnCalibration

SpecCalibrate == Init /\ [][NextCalibrate]_vars

\* the route alone, over every hour of minute returns
NextRoute ==
    \/ \E fetched \in FetchOutcomes : GET(fetched)
    \/ RouteTick

SpecRoute == Init /\ [][NextRoute]_vars

\* C12: whenever the calibrator answered with the default jump bundle (no
\* jump in the minute returns, or the fallback after a failed fetch), the
\* SimInputs the hook builds from that calibration carry
\* lambda = 0.1 x jumpIntensityMultiplier, mu_j = 0 and
\* sigma_j = 0.02 x jumpSizeMultiplier.
C12_DefaultJumpsReadable ==
    (/\ last.op = "runSimulation"
     /\ last.outcome = "miss"
     /\ swrData.jumps = DEFAULT_JUMP_PARAMS)
    => /\ last.request.inputs.lambda = 10 * last.key.sensitivity.jumpIntensityMultiplier
       /\ last.request.inputs.mu_j = 0
       /\ last.request.inputs.sigma_j = 2 * last.key.sensitivity.jumpSizeMultiplier

\* C13: when a candle fetch fails, GET /api/calibrate still answers 200
\* with the documented defaults (the three volatilities sqrt(0.04), regime
\* BULL with probabilities [0.5, 0.5], the default jumps), and the bundle it
\* answers with is flagged degraded.
C13_FailedFetchDegradedDefaults ==
    (last.op = "GET" /\ last.outcome = "default")
    => /\ last.status = 200
       /\ last.body.dailyRV = SqrtDefaultTheta
       /\ last.body.weeklyRV = SqrtDefaultTheta
       /\ last.body.intradayRV = SqrtDefaultTheta
       /\ last.body.regime = [current |-> "BULL", probabilities |-> <<50, 50>>]
       /\ last.body.jumps = DEFAULT_JUMP_PARAMS
       /\ "degraded" \in DOMAIN last.body
       /\ last.body.degraded = TRUE

\* C14: the jump family kou is never emitted: the jumps of every calibration
\* the route answers with or keeps, and the inputs of every 'run' message
\* handed to the worker, have kind 'merton'.
C14_NeverKou ==
    /\ swrData # NoCalibration => swrData.jumps.kind = "merton"
    /\ calibrationCache.data # NoCalibration
           => calibrationCache.data.jumps.kind = "merton"
    /\ \A i \in 1..Len(toWorker) :
           toWorker[i].type = "run" => toWorker[i].inputs.kind = "merton"

\* a run was posted on a calibration whose jumps were estimated from detected
\* jumps
C14_Witness ==
    /\ last.op = "runSimulation"
    /\ last.outcome = "miss"
    /\ swrData # NoCalibration
    /\ swrData.jumps # DEFAULT_JUMP_PARAMS
    /\ \E i \in 1..Len(toWorker) : toWorker[i].type = "run"

----------------------------------------------------------------------------
(* detectRegime on its own *)

callDetectRegime(returns) ==
    /\ last' = [op |-> "detectRegime", returns |-> returns,
                ret |-> detectRegime(returns)]
    /\ UNCHANGED <<state, workerRef, toWorker, toMain, isInitialized, initAwait,
                   workerBuild, cache, now, dispatched, cancelled, swrData,
                   calibrationCache, keyA, keyB,
                   client, sockets, timers>>

NextRegime == \E returns \in MinuteReturns : callDetectRegime(returns)

SpecRegime == Init /\ [][NextRegime]_vars

\* the last 20 of the returns (all of them when there are fewer)
LastTwenty(returns) ==
    LET n == Len(returns)
        k == IF n < 20 THEN n ELSE 20
    IN  [i \in 1..k |-> returns[n - k + i]]

\* the mean of xs is positive
MeanPositive(xs) == Sum(xs) > 0

\* the sample deviation of xs is below 0.02:
\* (sum x^2 - (sum x)^2 / k) / (k - 1) < 20^2 in thousandths
SigmaBelowTwoPercent(xs) ==
    LET k == Len(xs) IN
    k * Sum([i \in 1..k |-> xs[i] * xs[i]]) - Sum(xs) * Sum(xs) < 400 * k * (k - 1)

----------------------------------------------------------------------------
(* The markets route: GET /api/kalshi/markets and parseKalshiMarket.         *)
(* A title is kept as its sequence of words; a number in it is the word "#"  *)
(* with its value, and a pattern is a sequence of sets of words.             *)

Word(w) == [w |-> w, n |-> 0]

Num(n) == [w |-> "#", n |-> n]

\* the pattern matches the words of text from position i on
MatchAt(text, i, pattern) ==
    /\ i + Len(pattern) - 1 <= Len(text)
    /\ \A j \in 1..Len(pattern) : text[i + j - 1].w \in pattern[j]

\* String.prototype.match: the numbers captured by the leftmost match of the
\* pattern, <<>> when it does not match
Captures(text, pattern) ==
    LET at == {i \in 1..Len(text) : MatchAt(text, i, pattern)} IN
    IF at = {} THEN <<>>
    ELSE LET i == CHOOSE k \in at : \A l \in at : k <= l
             matched == SubSeq(text, i, i + Len(pattern) - 1)
             numbers == SelectSeq(matched, LAMBDA t : t.w = "#")
         IN  [k \in 1..Len(numbers) |-> numbers[k].n]

\* the captures of the first pattern that matches
RECURSIVE FirstCaptures(_, _)
FirstCaptures(text, patterns) ==
    IF patterns = <<>> THEN <<>>
    ELSE IF Captures(text, Head(patterns)) # <<>>
         THEN Captures(text, Head(patterns))
         ELSE FirstCaptures(text, Tail(patterns))

rangePatterns ==
    << <<{"#"}, {"-"}, {"#"}>>,
       <<{"between"}, {"#"}, {"and", "to"}, {"#"}>>,
       <<{"#"}, {"to", "through"}, {"#"}>> >>

\* an optional "or" is written as the pattern with it and the pattern without
abovePatterns ==
    << <<{"above"}, {"#"}>>,
       <<{"over"}, {"#"}>>,
       <<{"at"}, {"least"}, {"#"}>>,
       <<{"#"}, {"or"}, {"above"}>>, <<{"#"}, {"above"}>>,
       <<{"#"}, {"or"}, {"higher"}>>, <<{"#"}, {"higher"}>> >>

\* strike_type values that are empty or include 'greater' or 'above'
AboveStrikeTypes == {"", "greater", "greater_or_equal"}

NoParse == [type |-> "null", strike |-> Undefined, rangeLow |-> Undefined,
            rangeHigh |-> Undefined]

parseKalshiMarket(market) ==
    IF market.floor_strike # Undefined /\ market.cap_strike # Undefined
    THEN [NoParse EXCEPT !.type = "range", !.rangeLow = market.floor_strike,
                         !.rangeHigh = market.cap_strike]
    ELSE IF market.floor_strike # Undefined /\ market.strike_type \in AboveStrikeTypes
    THEN [NoParse EXCEPT !.type = "above", !.strike = market.floor_strike]
    ELSE LET rangeMatch == FirstCaptures(market.title, rangePatterns)
             strike == FirstCaptures(market.title, abovePatterns)
         IN  IF rangeMatch # <<>>
             THEN [NoParse EXCEPT !.type = "range", !.rangeLow = rangeMatch[1],
                                  !.rangeHigh = rangeMatch[2]]
             ELSE IF strike # <<>>
             THEN [NoParse EXCEPT !.type = "above", !.strike = strike[1]]
             ELSE NoParse

\* Array.prototype.sort by close_time (stable): insertion of m into a sorted
\* list behind the markets that do not close later
RECURSIVE InsertByCloseTime(_, _)
InsertByCloseTime(sorted, m) ==
    IF sorted = <<>> THEN <<m>>
    ELSE IF Head(sorted).close_time <= m.close_time
         THEN <<Head(sorted)>> \o InsertByCloseTime(Tail(sorted), m)
         ELSE <<m>> \o sorted

RECURSIVE SortByCloseTime(_)
SortByCloseTime(ms) ==
    IF ms = <<>> THEN <<>>
    ELSE InsertByCloseTime(SortByCloseTime(SubSeq(ms, 1, Len(ms) - 1)), ms[Len(ms)])

\* the descriptor the route makes of one market of the Kalshi API
describe(market) ==
    LET parsed == parseKalshiMarket(market) IN
    [ticker       |-> market.ticker,
     close_time   |-> market.close_time,
     strike_price |-> parsed.strike,
     range_low    |-> parsed.rangeLow,
     range_high   |-> parsed.rangeHigh]

\* ---- what the Kalshi API can deliver ----
Titles ==
    { <<>>,
      <<Word("bitcoin"), Word("price"), Word("today")>>,
      <<Word("bitcoin"), Word("above"), Num(100)>>,
      <<Word("bitcoin"), Num(100), Word("or"), Word("higher")>>,
      <<Word("bitcoin"), Word("below"), Num(100)>>,
      <<Word("bitcoin"), Word("between"), Num(90), Word("and"), Num(110)>>,
      <<Word("bitcoin"), Num(90), Word("-"), Num(110)>> }

StrikeTypes == {"", "greater", "less", "between"}

RawMarket(ticker, close, floor, cap, strikeType, title) ==
    [ticker |-> ticker, close_time |-> close, floor_strike |-> floor,
     cap_strike |-> cap, strike_type |-> strikeType, title |-> title]

RawMarkets ==
    {RawMarket("KXBTC-A", 1, floor, cap, strikeType, title) :
        floor \in {Undefined, 90}, cap \in {Undefined, 110},
        strikeType \in StrikeTypes, title \in Titles}

\* markets closing in two hours, listed before one that closes in one hour
LaterMarkets ==
    {RawMarket("KXBTC-B", 2, floor, Undefined, "greater", <<>>) :
        floor \in {Undefined, 90}}

MarketLists ==
    {<<>>} \cup {<<m>> : m \in RawMarkets}
           \cup {<<later, m>> : later \in LaterMarkets,
                                m \in {r \in RawMarkets : r.title = <<>>}}

\* GET /api/kalshi/markets
marketsGET(fetched) ==
    /\ last' = IF fetched.ok
               THEN LET btcMarkets ==
                            SortByCloseTime([i \in 1..Len(fetched.data) |->
                                                describe(fetched.data[i])])
                    IN  [op      |-> "markets",
                         data    |-> fetched.data,
                         status  |-> 200,
                         markets |-> btcMarkets,
                         count   |-> Len(btcMarkets)]
               ELSE [op |-> "markets", data |-> <<>>, status |-> 500,
                     markets |-> <<>>, count |-> 0]
    /\ UNCHANGED <<state, workerRef, toWorker, toMain, isInitialized, initAwait,
                   workerBuild, cache, now, dispatched, cancelled, swrData,
                   calibrationCache, keyA, keyB,
                   client, sockets, timers>>

NextMarkets ==
    \/ \E data \in MarketLists : marketsGET([ok |-> TRUE, data |-> data])
    \/ marketsGET([ok |-> FALSE])

SpecMarkets == Init /\ [][NextMarkets]_vars

\* C16: every market descriptor the markets route produces has exactly one of
\* strike_price or the (range_low, range_high) pair populated, never both
\* and never neither.
C16_ExactlyOneTargetPopulated ==
    (last.op = "markets" /\ last.status = 200) =>
        \A i \in 1..Len(last.markets) :
            LET m == last.markets[i] IN
            (m.strike_price # Undefined)
                # (m.range_low # Undefined /\ m.range_high # Undefined)

----------------------------------------------------------------------------
(* IEEE 754 binary64, the arithmetic of a JavaScript number.                 *)
(* A natural number is kept as its limbs, least significant first, in base   *)
(* 2^14; a double is a sign, a 53-bit significand m and an exponent e, its   *)
(* value m * 2^e, zero having no limbs.  Every operation computes the exact  *)
(* result and rounds it to nearest, ties to even.                            *)

LimbBits == 14
LimbBase == 16384

RECURSIVE Pow2(_)
Pow2(k) == IF k = 0 THEN 1 ELSE 2 * Pow2(k - 1)

RECURSIVE Trim(_)
Trim(a) ==
    IF a = <<>> THEN a
    ELSE IF a[Len(a)] = 0 THEN Trim(SubSeq(a, 1, Len(a) - 1))
    ELSE a

Limb(a, i) == IF i <= Len(a) THEN a[i] ELSE 0

Zeros(k) == [i \in 1..k |-> 0]

RECURSIVE AddFrom(_, _, _, _)
AddFrom(a, b, i, carry) ==
    IF i > Len(a) /\ i > Len(b)
    THEN IF carry = 0 THEN <<>> ELSE <<carry>>
    ELSE LET t == Limb(a, i) + Limb(b, i) + carry
         IN  <<t % LimbBase>> \o AddFrom(a, b, i + 1, t \div LimbBase)

BigAdd(a, b) == AddFrom(a, b, 1, 0)

\* a - b for a >= b
RECURSIVE SubFrom(_, _, _, _)
SubFrom(a, b, i, borrow) ==
    IF i > Len(a) THEN <<>>
    ELSE LET t == Limb(a, i) - Limb(b, i) - borrow
         IN  <<(t + LimbBase) % LimbBase>>
                 \o SubFrom(a, b, i + 1, IF t < 0 THEN 1 ELSE 0)

BigSub(a, b) == Trim(SubFrom(a, b, 1, 0))

\* -1, 0 or 1 as a is below, equal to or above b, comparing limbs i .. 1
RECURSIVE CmpFrom(_, _, _)
CmpFrom(a, b, i) ==
    IF i = 0 THEN 0
    ELSE IF Limb(a, i) < Limb(b, i) THEN 0 - 1
    ELSE IF Limb(a, i) > Limb(b, i) THEN 1
    ELSE CmpFrom(a, b, i - 1)

BigCmp(a, b) == CmpFrom(a, b, IF Len(a) > Len(b) THEN Len(a) ELSE Len(b))

\* a * d for one limb d
RECURSIVE MulSmallFrom(_, _, _, _)
MulSmallFrom(a, d, i, carry) ==
    IF i > Len(a)
    THEN IF carry = 0 THEN <<>> ELSE <<carry>>
    ELSE LET t == a[i] * d + carry
         IN  <<t % LimbBase>> \o MulSmallFrom(a, d, i + 1, t \div LimbBase)

BigMulSmall(a, d) == MulSmallFrom(a, d, 1, 0)

RECURSIVE MulFrom(_, _, _)
MulFrom(a, b, i) ==
    IF i > Len(b) THEN <<>>
    ELSE BigAdd(Zeros(i - 1) \o BigMulSmall(a, b[i]), MulFrom(a, b, i + 1))

BigMul(a, b) == Trim(MulFrom(a, b, 1))

\* a * 2^k
BigShl(a, k) ==
    IF a = <<>> THEN <<>>
    ELSE Zeros(k \div LimbBits) \o BigMulSmall(a, Pow2(k % LimbBits))

\* the limbs 1 .. i of floor(a / d) for one limb d, rem carried from above
RECURSIVE DivSmallFrom(_, _, _, _)
DivSmallFrom(a, d, i, rem) ==
    IF i = 0 THEN <<>>
    ELSE LET t == rem * LimbBase + a[i]
         IN  Append(DivSmallFrom(a, d, i - 1, t % d), t \div d)

\* floor(a / 2^k)
BigShr(a, k) ==
    IF k \div LimbBits >= Len(a) THEN <<>>
    ELSE LET high == SubSeq(a, k \div LimbBits + 1, Len(a))
         IN  Trim(DivSmallFrom(high, Pow2(k % LimbBits), Len(high), 0))

\* a mod 2^k
BigLow(a, k) ==
    IF k \div LimbBits >= Len(a) THEN Trim(a)
    ELSE Trim(SubSeq(a, 1, k \div LimbBits)
              \o <<a[k \div LimbBits + 1] % Pow2(k % LimbBits)>>)

RECURSIVE LimbBitLen(_)
LimbBitLen(x) == IF x = 0 THEN 0 ELSE 1 + LimbBitLen(x \div 2)

\* the number of bits of a (no leading zero limb)
BitLen(a) ==
    IF a = <<>> THEN 0 ELSE LimbBits * (Len(a) - 1) + LimbBitLen(a[Len(a)])

\* bit j of a, bit 0 the least significant
Bit(a, j) == (Limb(a, j \div LimbBits + 1) \div Pow2(j % LimbBits)) % 2

FromNat(n) == Trim(<<n % LimbBase, n \div LimbBase>>)

\* long division, one bit of the quotient at a time: k more steps from st,
\* where st.q holds the bits found and st.r the remainder, st.r < b
RECURSIVE DivBits(_, _, _)
DivBits(st, b, k) ==
    IF k = 0 THEN st
    ELSE LET before == DivBits(st, b, k - 1) IN
         IF before.r = <<>> THEN [q |-> BigMulSmall(before.q, 2), r |-> <<>>]
         ELSE LET r2 == BigMulSmall(before.r, 2) IN
              IF BigCmp(r2, b) >= 0
              THEN [q |-> BigAdd(BigMulSmall(before.q, 2), <<1>>),
                    r |-> BigSub(r2, b)]
              ELSE [q |-> BigMulSmall(before.q, 2), r |-> r2]

\* the next limb of the quotient
DivLimb(st, b) ==
    IF st.r = <<>> THEN [q |-> BigShl(st.q, LimbBits), r |-> <<>>]
    ELSE DivBits(st, b, LimbBits)

\* floor(a * 2^56 / b) and whether the division is exact, for a < 2 b
BigDiv56(a, b) ==
    LET d0 == IF BigCmp(a, b) >= 0 THEN [q |-> <<1>>, r |-> BigSub(a, b)]
              ELSE [q |-> <<>>, r |-> Trim(a)]
        d1 == DivLimb(d0, b)
        d2 == DivLimb(d1, b)
        d3 == DivLimb(d2, b)
        d4 == DivLimb(d3, b)
    IN  [q |-> d4.q, exact |-> d4.r = <<>>]

\* the square root digit by digit, one bit of the root at a time: k more
\* steps from st, where the pairs of bits below pair st.left of a are still to
\* be taken, st.root = floor(sqrt(the bits taken)) and
\* st.rem = (the bits taken) - st.root^2
RECURSIVE SqrtBits(_, _, _)
SqrtBits(st, a, k) ==
    IF k = 0 THEN st
    ELSE LET before == SqrtBits(st, a, k - 1) IN
         IF before.left = 0 THEN before
         ELSE LET j    == before.left
                  pair == 2 * Bit(a, 2 * j - 1) + Bit(a, 2 * j - 2)
                  rem4 == BigAdd(BigMulSmall(before.rem, 4), FromNat(pair))
                  cand == BigAdd(BigMulSmall(before.root, 4), <<1>>)
              IN  IF BigCmp(rem4, cand) >= 0
                  THEN [root |-> BigAdd(BigMulSmall(before.root, 2), <<1>>),
                        rem  |-> BigSub(rem4, cand), left |-> j - 1]
                  ELSE [root |-> BigMulSmall(before.root, 2), rem |-> rem4,
                        left |-> j - 1]

\* the next limb of the root
SqrtLimb(st, a) == IF st.left = 0 THEN st ELSE SqrtBits(st, a, LimbBits)

\* floor(sqrt(a)) and whether a is a square, for a < 2^112
BigSqrt(a) ==
    LET s0 == [root |-> <<>>, rem |-> <<>>, left |-> (BitLen(a) + 1) \div 2]
        s1 == SqrtLimb(s0, a)
        s2 == SqrtLimb(s1, a)
        s3 == SqrtLimb(s2, a)
        s4 == SqrtLimb(s3, a)
    IN  [root |-> s4.root, exact |-> s4.rem = <<>>]

FloatZero == [neg |-> FALSE, m |-> <<>>, e |-> 0]

\* the double nearest to (exact + f) * 2^E, ties to even, where 0 < f < 1
\* when sticky and f = 0 otherwise; a sticky number has at least 55 bits
RoundFloat(neg, exact, E, sticky) ==
    LET M == exact
        L == BitLen(M)
    IN
    IF L = 0 THEN FloatZero
    ELSE IF L <= 53 THEN [neg |-> neg, m |-> BigShl(M, 53 - L), e |-> E - (53 - L)]
    ELSE LET sh      == L - 53
             kept    == BigShr(M, sh)
             dropped == BigLow(M, sh)
             half    == BigCmp(dropped, BigShl(<<1>>, sh - 1))
             up      == \/ half > 0
                        \/ half = 0 /\ (sticky \/ Bit(kept, 0) = 1)
             m       == IF up THEN BigAdd(kept, <<1>>) ELSE kept
         IN  IF BitLen(m) = 54
             THEN [neg |-> neg, m |-> BigShr(m, 1), e |-> E + sh + 1]
             ELSE [neg |-> neg, m |-> m, e |-> E + sh]

\* an integer below 2^28 as a double
FromInt(n) == RoundFloat(FALSE, FromNat(n), 0, FALSE)

FNeg(a) == IF a.m = <<>> THEN a ELSE [a EXCEPT !.neg = ~a.neg]

\* a + b
FAdd(a, b) ==
    IF a.m = <<>> THEN b
    ELSE IF b.m = <<>> THEN a
    ELSE LET e  == IF a.e < b.e THEN a.e ELSE b.e
             am == BigShl(a.m, a.e - e)
             bm == BigShl(b.m, b.e - e)
             c  == BigCmp(am, bm)
         IN  IF a.neg = b.neg THEN RoundFloat(a.neg, BigAdd(am, bm), e, FALSE)
             ELSE IF c = 0 THEN FloatZero
             ELSE IF c > 0 THEN RoundFloat(a.neg, BigSub(am, bm), e, FALSE)
             ELSE RoundFloat(b.neg, BigSub(bm, am), e, FALSE)

\* a - b
FSub(a, b) == FAdd(a, FNeg(b))

\* a * b
FMul(a, b) ==
    IF a.m = <<>> \/ b.m = <<>> THEN FloatZero
    ELSE RoundFloat(a.neg # b.neg, BigMul(a.m, b.m), a.e + b.e, FALSE)

\* a / b for b # 0
FDiv(a, b) ==
    IF a.m = <<>> THEN FloatZero
    ELSE LET d == BigDiv56(a.m, b.m)
         IN  RoundFloat(a.neg # b.neg, d.q, a.e - b.e - 56, ~d.exact)

\* Math.sqrt(a) for a >= 0
FSqrt(a) ==
    IF a.m = <<>> THEN FloatZero
    ELSE LET k == IF (a.e - 56) % 2 = 0 THEN 56 ELSE 57
             shifted == BigShl(a.m, k)
             r == BigSqrt(shifted)
         IN  RoundFloat(FALSE, r.root, (a.e - k) \div 2, ~r.exact)

\* a <= b
FLe(a, b) == LET d == FSub(a, b) IN d.m = <<>> \/ d.neg

\* Math.max(a, b) and Math.min(a, b)
FMax(a, b) == IF FLe(a, b) THEN b ELSE a

FMin(a, b) == IF FLe(a, b) THEN a ELSE b

FloatOne == [neg |-> FALSE, m |-> <<0, 0, 0, 1024>>, e |-> 0 - 52]

\* 1.96 = 0x1.f5c28f5c28f5cp+0 and 2.576 = 0x1.49ba5e353f7cfp+1
Z196 == [neg |-> FALSE, m |-> <<3932, 5898, 655, 2007>>, e |-> 0 - 52]

Z2576 == [neg |-> FALSE, m |-> <<14287, 3407, 14942, 1318>>, e |-> 0 - 51]

Only(S) == CHOOSE x \in S : TRUE

\* confidence in percent; the interval as the pair of doubles returned.  Read
\* from the innermost set outwards: each set holds the one record of the
\* intermediate values computed so far, in the order the code computes them.
wilsonCI(successes, n, confidence) ==
    IF n = 0 THEN <<FloatZero, FloatOne>>
    ELSE Only(
        {<<FMax(FloatZero, v.low), FMin(FloatOne, v.high)>> : v \in
        {v @@ [low |-> FSub(v.center, v.margin),
               high |-> FAdd(v.center, v.margin)] : v \in
        {v @@ [margin |-> FDiv(v.zRoot, v.denominator)] : v \in
        {v @@ [zRoot |-> FMul(v.z, v.root)] : v \in
        {v @@ [root |-> FSqrt(v.radicand)] : v \in
        {v @@ [radicand |-> FAdd(v.pqOverN, v.zsqOver4NN)] : v \in
        {v @@ [pqOverN |-> FDiv(v.pq, v.count),
               zsqOver4NN |-> FDiv(v.zsq, v.fourNN)] : v \in
        {v @@ [pq |-> FMul(v.p, v.q),
               fourNN |-> FromInt(4 * n * n)] : v \in
        {v @@ [q |-> FSub(FloatOne, v.p),
               center |-> FDiv(v.shifted, v.denominator)] : v \in
        {v @@ [shifted |-> FAdd(v.p, v.zsqOver2N)] : v \in
        {v @@ [zsqOver2N |-> FDiv(v.zsq, v.twoN),
               denominator |-> FAdd(FloatOne, v.zsqOverN)] : v \in
        {v @@ [zsqOverN |-> FDiv(v.zsq, v.count),
               twoN |-> FromInt(2 * n)] : v \in
        {v @@ [zsq |-> FMul(v.z, v.z)] : v \in
        {v @@ [z |-> IF confidence = 95 THEN Z196 ELSE Z2576] : v \in
        {v @@ [p |-> FDiv(v.hits, v.count)] : v \in
        {[hits |-> FromInt(successes),
          count |-> FromInt(n)]}}}}}}}}}}}}}}}})

----------------------------------------------------------------------------
(* wilsonCI on its own *)

MaxTrials == 13

Confidences == {95, 99}

WilsonArgs ==
    {[op |-> "args", successes |-> k, n |-> n, confidence |-> c] :
        k \in 0..MaxTrials, n \in 0..MaxTrials, c \in Confidences}

callWilsonCI ==
    /\ last.op = "args"
    /\ last' = [op |-> "wilsonCI", successes |-> last.successes, n |-> last.n,
                confidence |-> last.confidence,
                ret |-> wilsonCI(last.successes, last.n, last.confidence)]
    /\ UNCHANGED <<state, workerRef, toWorker, toMain, isInitialized, initAwait,
                   workerBuild, cache, now, dispatched, cancelled, swrData,
                   calibrationCache, keyA, keyB,
                   client, sockets, timers>>

InitWilson ==
    /\ state = [isRunning |-> FALSE, progress |-> Frac(0, 1), result |-> NoResult,
                error |-> NoError]
    /\ workerRef = FALSE
    /\ toWorker = <<>>
    /\ toMain = <<>>
    /\ isInitialized = FALSE
    /\ initAwait = FALSE
    /\ workerBuild = "part_004"
    /\ cache = <<>>
    /\ now = 0
    /\ dispatched = 0
    /\ cancelled = {}
    /\ swrData = NoCalibration
    /\ calibrationCache = [data |-> NoCalibration, timestamp |-> 0]
    /\ last \in {a \in WilsonArgs : a.successes <= a.n}
    /\ keyA = NoKey
    /\ keyB = NoKey
    /\ client = NoClient
    /\ sockets = <<>>
    /\ timers = NoTimers

NextWilson == callWilsonCI

SpecWilson == InitWilson /\ [][NextWilson]_vars

\* C15: for every 0 <= successes <= n with n >= 1, wilsonCI returns [lo, hi]
\* with 0 <= lo <= successes / n <= hi <= 1; for n = 0 it returns [0, 1].
C15_WilsonEnclosesEstimate ==
    last.op = "wilsonCI" =>
        IF last.n = 0 THEN last.ret = <<FloatZero, FloatOne>>
        ELSE LET lo == last.ret[1]
                 hi == last.ret[2]
                 hits  == FromInt(last.successes)
                 count == FromInt(last.n)
                 p  == FDiv(hits, count)
             IN  /\ FLe(FloatZero, lo)
                 /\ FLe(lo, p)
                 /\ FLe(p, hi)
                 /\ FLe(hi, FloatOne)

----------------------------------------------------------------------------
(* estimateJumpParams on its own *)

callEstimateJumpParams(returns) ==
    /\ last' = [op |-> "estimateJumpParams", returns |-> returns,
                ret |-> estimateJumpParams(returns)]
    /\ UNCHANGED <<state, workerRef, toWorker, toMain, isInitialized, initAwait,
                   workerBuild, cache, now, dispatched, cancelled, swrData,
                   calibrationCache, keyA, keyB,
                   client, sockets, timers>>

NextJumps == \E returns \in MinuteReturns : callEstimateJumpParams(returns)

SpecJumps == Init /\ [][NextJumps]_vars

\* the number of returns further than three sample deviations from the mean:
\* (r - mean)^2 > 9 * sum (x - mean)^2 / (n - 1), in whole numbers
FlaggedCount(returns) ==
    LET n == Len(returns)
        S == Sum(returns)
        Q == Sum([i \in 1..n |-> returns[i] * returns[i]])
    IN  IF n < 2 THEN 0
        ELSE Cardinality({i \in 1..n :
                 (n * returns[i] - S) * (n * returns[i] - S) * (n - 1)
                     > 9 * n * (n * Q - S * S)})

\* C21: whenever at least one jump is flagged in the minute returns (also
\* exactly one), estimateJumpParams emits lambda = jumps / total clamped into
\* [0.01, 1.0], sigma_j a finite number within [0.01, 0.1], and mu_j = 0.
C21_JumpParamsClamped ==
    (last.op = "estimateJumpParams" /\ FlaggedCount(last.returns) >= 1) =>
        /\ last.ret.lambda =
               Max(1, Min(100, (100 * FlaggedCount(last.returns)) \div Len(last.returns)))
        /\ last.ret.sigma_j \in 1..10
        /\ last.ret.mu_j = 0

----------------------------------------------------------------------------
(* Claims about the worker's answers and the hook's handling of them *)

\* the messages the step appended to the worker's outbox
Posted == SubSeq(toMain', Len(toMain) + 1, Len(toMain'))

\* C23: for every 'run' message the worker handles it posts exactly one
\* terminal message, 'complete' or 'error', and no 'progress' message of that
\* run after the terminal one; also when the WASM module is not initialised
\* or the engine throws.
C23_OneTerminalPerRun ==
    [][\A o \in EngineOutcomes :
        workerRun(o) =>
            /\ Len(Posted) >= 1
            /\ Posted[Len(Posted)].type \in {"complete", "error"}
            /\ \A i \in 1..(Len(Posted) - 1) : Posted[i].type = "progress"
            /\ \A i \in 1..Len(Posted) : Posted[i].job = Head(toWorker).job
      ]_vars

\* the outbox holds the answers to two runs: an error for the first, and
\* progress followed by 'complete' for the second
C23_Witness ==
    \E i, k \in 1..Len(toMain) :
        /\ toMain[i].type = "error" /\ toMain[i].job = 1
        /\ i < k
        /\ toMain[k].type = "progress" /\ toMain[k].job = 2
        /\ toMain[Len(toMain)].type = "complete" /\ toMain[Len(toMain)].job = 2

\* the outbox holds a 'WASM not initialized' answer, or the hook shows one
AnsweredNotInitialized ==
    \/ \E i \in 1..Len(toMain) :
           toMain[i].type = "error" /\ toMain[i].error = "WASM not initialized"
    \/ state.error = "WASM not initialized"

\* C24: a 'run' message that reaches the worker after the 'init' message is
\* never answered with 'WASM not initialized' when initialisation succeeds:
\* at the moment init resolves, no run has been answered that way.
C24_NoRunBeforeInitSettles ==
    [][workerInitSettled(TRUE) => ~AnsweredNotInitialized]_vars

\* the cache keys of the requests a result can have come from: the market is
\* the one with the result's target, the price the inputs' s0, and the time
\* of the request the market's close less the inputs' horizon
KeysOfResult(result) ==
    {runCacheKey(m, NoSensitivity, result.inputs.s0, m.close_time - result.inputs.t) :
        m \in {m \in MarketsAll : prepareTarget(m) = result.target}}

\* C25: with several runs queued at the worker, each completed result is
\* cached under the fingerprint of the request that produced it (the cache key
\* travels with the run and comes back with its 'complete'), never under the
\* fingerprint of another, later request.
C25_CachedUnderOwnFingerprint ==
    /\ \A i \in 1..Len(toMain) :
           toMain[i].type = "complete" =>
               toMain[i].cacheKey \in KeysOfResult(toMain[i].result)
    /\ \A i \in 1..Len(cache) :
           cache[i].fp \in {generateKey(k) : k \in KeysOfResult(cache[i].result)}

\* the result of the first run was cached while the second run, for another
\* market, was waiting at the worker
C25_Witness ==
    /\ last.op = "onmessage" /\ last.outcome = "complete" /\ last.job = 1
    /\ \E i \in 1..Len(cache) : cache[i].result.job = 1
    /\ \E i \in 1..Len(toWorker) :
           /\ toWorker[i].type = "run"
           /\ toWorker[i].job = 2
           /\ generateKey(toWorker[i].cacheKey) # generateKey(last.key)

----------------------------------------------------------------------------
(* The hook and a worker that keeps taking messages off its queue, the main *)
(* thread delivering every message the worker posts                         *)

workerTakesMessage ==
    \/ workerInit
    \/ \E o \in EngineOutcomes : workerRun(o)
    \/ workerStop

NextLive ==
    \/ Mount
    \/ \E m \in Markets, s \in Sensitivities, p \in PathChoices,
          pr \in Prices, c \in Calibrations :
            runSimulation(m, s, p, pr, c)
    \/ stopSimulation
    \/ onmessage
    \/ workerTakesMessage
    \/ \E ok \in BOOLEAN : workerInitSettled(ok)

SpecLive ==
    /\ Init
    /\ [][NextLive]_vars
    /\ WF_vars(workerTakesMessage)
    /\ WF_vars(onmessage)

\* the hook has just handled the terminal message of run j
TerminalHandled(j) ==
    /\ last.op = "onmessage"
    /\ last.outcome \in {"complete", "error"}
    /\ last.job = j

\* run j waits at the worker
RunPending(j) ==
    \E i \in 1..Len(toWorker) : toWorker[i].type = "run" /\ toWorker[i].job = j

\* C26: every run dispatched to the worker eventually leaves the controller
\* with isRunning = false, through a 'complete' or an 'error' message,
\* provided the worker keeps processing its message queue.
C26_DispatchedRunEnds ==
    \A j \in 1..MaxJobs :
        RunPending(j) ~> (TerminalHandled(j) /\ ~state.isRunning)

\* the second run was dispatched while the first was still at the worker, and
\* its terminal message has been handled
C26_Witness ==
    /\ dispatched = 2
    /\ TerminalHandled(2)
    /\ ~state.isRunning
    /\ toWorker = <<>>
    /\ toMain = <<>>

----------------------------------------------------------------------------
(* The websocket clients: CoinbaseWebSocket, BinanceWebSocket and          *)
(* KalshiWebSocket.  client holds the fields of one instance: ws is the    *)
(* index in sockets of the WebSocket this.ws refers to (0 for null),       *)
(* reconnectTimeout says whether the 5 s timer is set (the field refers to *)
(* the one pending timer: reconnect() sets it only when the field is null, *)
(* the timer's callback and disconnect() null it), heartbeatInterval       *)
(* (pingInterval in binance.ts and kalshi.ts) and pongTimeout are the ids  *)
(* of the timers the fields refer to (0 for null).  sockets[s] is the      *)
(* readyState of the s-th WebSocket created; every socket keeps the four   *)
(* handlers connect() attached to it, since no code detaches them.         *)
(* new WebSocket(url) with these constant wss URLs does not throw, so the  *)
(* catch block of connect() is never entered.                              *)

MaxSockets == 3       \* WebSocket objects one client creates in one behaviour

ClientKinds == {"coinbase", "binance", "kalshi"}

\* market tickers the page subscribes to
Tickers == {"KXBTC-A", "KXBTC-B"}

\* the variables of the simulation hook, its worker and the routes
simulationVars == <<state, workerRef, toWorker, toMain, isInitialized, initAwait,
                    workerBuild, cache, now, dispatched, cancelled, swrData,
                    calibrationCache, keyA, keyB>>

\* the client, the sockets and the timers while one handler runs, with the
\* frames the handler handed to a socket's send() so far
World == [client |-> client, sockets |-> sockets, timers |-> timers, sent |-> <<>>]

Frame(s, type, ticker) == [socket |-> s, type |-> type, ticker |-> ticker]

\* this.ws?.readyState === WebSocket.OPEN
wsIsOpen(w) == w.client.ws # 0 /\ w.sockets[w.client.ws] = "OPEN"

onStatusChange(w, status) == [w EXCEPT !.client.status = status]

\* WebSocket.close(): a connecting or open socket starts closing
close(w, s) ==
    IF w.sockets[s] \in {"CONNECTING", "OPEN"}
    THEN [w EXCEPT !.sockets[s] = "CLOSING"]
    ELSE w

\* this.ws?.send(frame) of an open socket; a closing or closed socket drops
\* the frame (the caller handles a connecting socket, whose send() throws)
wsSend(w, type, ticker) ==
    IF wsIsOpen(w)
    THEN [w EXCEPT !.sent = Append(@, Frame(w.client.ws, type, ticker))]
    ELSE w

\* KalshiWebSocket.send
send(w, type, ticker) ==
    IF wsIsOpen(w) THEN wsSend(w, type, ticker) ELSE w

\* the interval takes the id of the socket whose onopen starts it (a socket
\* opens once); the field is overwritten, no earlier interval is cleared
startHeartbeat(w, s) ==
    [w EXCEPT !.timers.intervals = @ \cup {s}, !.client.heartbeatInterval = s]

resetPongTimeout(w) ==
    IF w.client.pongTimeout # 0
    THEN [w EXCEPT !.timers.pongTimeouts = @ \ {w.client.pongTimeout},
                   !.client.pongTimeout = 0]
    ELSE w

clearHeartbeatInterval(w) ==
    IF w.client.heartbeatInterval # 0
    THEN [w EXCEPT !.timers.intervals = @ \ {w.client.heartbeatInterval},
                   !.client.heartbeatInterval = 0]
    ELSE w

stopHeartbeat(w) ==
    IF w.client.kind = "binance"
    THEN resetPongTimeout(clearHeartbeatInterval(w))
    ELSE clearHeartbeatInterval(w)

reconnect(w) ==
    IF w.client.reconnectTimeout
    THEN w
    ELSE [w EXCEPT !.client.reconnectTimeout = TRUE]

connect(w) ==
    IF wsIsOpen(w)
    THEN w
    ELSE [onStatusChange(w, "connecting") EXCEPT
              !.sockets = Append(@, "CONNECTING"),
              !.client.ws = Len(w.sockets) + 1]

disconnect(w) ==
    Only({IF v.client.ws # 0
          THEN [close(v, v.client.ws) EXCEPT !.client.ws = 0]
          ELSE v
          : v \in {stopHeartbeat([w EXCEPT !.client.reconnectTimeout = FALSE])}})

subscribe(w, ticker) ==
    Only({IF wsIsOpen(v) THEN send(v, "subscribe", ticker) ELSE v
          : v \in {[w EXCEPT !.client.subscribedTickers =
                        IF \E i \in 1..Len(@) : @[i] = ticker
                        THEN @ ELSE Append(@, ticker)]}})

unsubscribe(w, ticker) ==
    Only({IF wsIsOpen(v) THEN send(v, "unsubscribe", ticker) ELSE v
          : v \in {[w EXCEPT !.client.subscribedTickers =
                        SelectSeq(@, LAMBDA t : t # ticker)]}})

RECURSIVE subscribeEach(_, _)
\* this.subscribedTickers.forEach(ticker => this.subscribe(ticker))
subscribeEach(w, tickers) ==
    IF tickers = <<>>
    THEN w
    ELSE subscribeEach(subscribe(w, Head(tickers)), Tail(tickers))

\* the onopen handler of socket s
ws_onopen(w, s) ==
    Only({CASE v.client.kind = "coinbase" ->
                   \* send() of a connecting socket throws: the handler ends
                   IF v.client.ws # 0 /\ v.sockets[v.client.ws] = "CONNECTING"
                   THEN v
                   ELSE startHeartbeat(wsSend(v, "subscribe", "BTC-USD"), s)
            [] v.client.kind = "binance" -> startHeartbeat(v, s)
            [] OTHER ->
                   startHeartbeat(
                       subscribeEach(send(v, "auth", "none"),
                                     v.client.subscribedTickers), s)
          : v \in {onStatusChange(w, "connected")}})

\* the onmessage handler: the price or orderbook callback changes nothing
\* of the client; BinanceWebSocket resets its pong timeout
ws_onmessage(w) ==
    IF w.client.kind = "binance" THEN resetPongTimeout(w) ELSE w

ws_onerror(w) == onStatusChange(w, "error")

ws_onclose(w) == reconnect(stopHeartbeat(onStatusChange(w, "disconnected")))

\* the callback of the heartbeat interval
heartbeat(w, i) ==
    IF ~wsIsOpen(w)
    THEN w
    ELSE CASE w.client.kind = "coinbase" -> wsSend(w, "heartbeat", "none")
           [] w.client.kind = "kalshi" -> send(w, "ping", "none")
           [] OTHER ->
                  [wsSend(w, "ping", "none") EXCEPT
                       !.timers.pongTimeouts = @ \cup {i},
                       !.client.pongTimeout = i]

\* the client's step: what it did, the socket or timer it was about and the
\* frames handed to send(), in order
SocketStep(op, s, sent) == [op |-> op, socket |-> s, sent |-> sent]

Commit(w, op, s) ==
    /\ client' = w.client
    /\ sockets' = w.sockets
    /\ timers' = w.timers
    /\ last' = SocketStep(op, s, w.sent)
    /\ UNCHANGED simulationVars

callConnect ==
    /\ wsIsOpen(World) \/ Len(sockets) < MaxSockets
    /\ Commit(connect(World), "connect", 0)

callDisconnect == Commit(disconnect(World), "disconnect", client.ws)

callSubscribe(ticker) ==
    /\ client.kind = "kalshi"
    /\ Commit(subscribe(World, ticker), "subscribe", client.ws)

callUnsubscribe(ticker) ==
    /\ client.kind = "kalshi"
    /\ Commit(unsubscribe(World, ticker), "unsubscribe", client.ws)

\* the connection of socket s is established
socketOpens(s) ==
    /\ sockets[s] = "CONNECTING"
    /\ Commit(ws_onopen([World EXCEPT !.sockets[s] = "OPEN"], s), "onopen", s)

\* a frame arrives on socket s
socketMessage(s) ==
    /\ sockets[s] = "OPEN"
    /\ Commit(ws_onmessage(World), "onmessage", s)

\* the connection of socket s ends: after close(), by the server, or by a
\* failure, which fires the error event before the close event
socketCloses(s, failed) ==
    /\ sockets[s] # "CLOSED"
    /\ Commit(ws_onclose(IF failed
                         THEN ws_onerror([World EXCEPT !.sockets[s] = "CLOSED"])
                         ELSE [World EXCEPT !.sockets[s] = "CLOSED"]),
              IF failed THEN "onerror" ELSE "onclose", s)

\* the 5 s timer of reconnect() fires
reconnectTimeoutFires ==
    /\ client.reconnectTimeout
    /\ wsIsOpen(World) \/ Len(sockets) < MaxSockets
    /\ Commit(connect([World EXCEPT !.client.reconnectTimeout = FALSE]),
              "reconnect", 0)

\* interval i ticks; a pong timer set by its previous tick (10 s) has fired
\* or was cleared before the next tick (540 s)
heartbeatFires(i) ==
    /\ i \in timers.intervals
    /\ i \notin timers.pongTimeouts
    /\ Commit(heartbeat(World, i), "heartbeat", i)

\* BinanceWebSocket: no frame arrived within 10 s of the ping of interval i
pongTimeoutFires(i) ==
    /\ i \in timers.pongTimeouts
    /\ Commit(IF client.ws # 0
              THEN close([World EXCEPT !.timers.pongTimeouts = @ \ {i}], client.ws)
              ELSE [World EXCEPT !.timers.pongTimeouts = @ \ {i}],
              "pongTimeout", i)

InitSocket ==
    /\ state = [isRunning |-> FALSE, progress |-> Frac(0, 1), result |-> NoResult,
                error |-> NoError]
    /\ workerRef = FALSE
    /\ toWorker = <<>>
    /\ toMain = <<>>
    /\ isInitialized = FALSE
    /\ initAwait = FALSE
    /\ workerBuild = "part_004"
    /\ cache = <<>>
    /\ now = 0
    /\ dispatched = 0
    /\ cancelled = {}
    /\ swrData = NoCalibration
    /\ calibrationCache = [data |-> NoCalibration, timestamp |-> 0]
    /\ last = SocketStep("new", 0, <<>>)
    /\ keyA = NoKey
    /\ keyB = NoKey
    /\ client \in {[NoClient EXCEPT !.kind = k] : k \in ClientKinds}
    /\ sockets = <<>>
    /\ timers = NoTimers

NextSocket ==
    \/ callConnect
    \/ callDisconnect
    \/ \E ticker \in Tickers : callSubscribe(ticker)
    \/ \E ticker \in Tickers : callUnsubscribe(ticker)
    \/ \E s \in 1..Len(sockets) : socketOpens(s)
    \/ \E s \in 1..Len(sockets) : socketMessage(s)
    \/ \E s \in 1..Len(sockets), failed \in BOOLEAN : socketCloses(s, failed)
    \/ reconnectTimeoutFires
    \/ \E i \in timers.intervals : heartbeatFires(i)
    \/ \E i \in timers.pongTimeouts : pongTimeoutFires(i)

SpecSocket == InitSocket /\ [][NextSocket]_vars

----------------------------------------------------------------------------
(* Claims about the websocket clients *)

\* this.ws is null only before the first connect() and from a disconnect()
\* to the next run of connect()
Disconnected == client.ws = 0

\* C27: after disconnect() the client stays disconnected: no reconnect timer
\* is pending or gets scheduled (also not by the close event of the socket
\* disconnect() closed) and no socket is created until connect() is called.
C27_StaysDisconnected ==
    [][((Disconnected /\ last'.op # "connect") \/ callDisconnect)
       => /\ ~client'.reconnectTimeout
          /\ Len(sockets') = Len(sockets)
     ]_vars

\* the sockets with handlers attached that are connecting or open
LiveSockets == {s \in 1..Len(sockets) : sockets[s] \in {"CONNECTING", "OPEN"}}

\* C28: across every interleaving of connect(), disconnect(), socket events
\* and timer firings, a client has at most one socket with attached handlers
\* that is connecting or open, and at most one heartbeat interval running.
C28_OneSocketOneHeartbeat ==
    /\ Cardinality(LiveSockets) <= 1
    /\ Cardinality(timers.intervals) <= 1

\* the tickers of the 'subscribe' frames among the frames after the first
SubscribedIn(sent) ==
    {sent[i].ticker : i \in {j \in 2..Len(sent) : sent[j].type = "subscribe"}}

\* C29: each time a socket of the Kalshi client opens, the auth frame is sent
\* on it before any subscribe frame, and the subscribe frames are sent for
\* exactly the tickers in the subscription set, one each.
C29_AuthThenSubscriptions ==
    [][\A s \in 1..Len(sockets) :
        (client.kind = "kalshi" /\ socketOpens(s))
        => /\ Len(last'.sent) = 1 + Len(client.subscribedTickers)
           /\ last'.sent[1] = Frame(s, "auth", "none")
           /\ \A i \in 2..Len(last'.sent) :
                  /\ last'.sent[i].socket = s
                  /\ last'.sent[i].type = "subscribe"
           /\ SubscribedIn(last'.sent) =
                  {client.subscribedTickers[i] : i \in 1..Len(client.subscribedTickers)}
      ]_vars

----------------------------------------------------------------------------
(* calculateEV on its own: the expected value in cents of one contract,    *)
(* in binary64 as the code computes it                                     *)

EVPaths == 10         \* simulated paths behind the probability hits / EVPaths

\* contract prices in cents
EVPrices == {0, 1, 37, 50, 63, 99, 100}

EVActions == {"BUY_YES", "SELL_YES", "BUY_NO", "SELL_NO"}

Float100 == FromInt(100)

calculateEV(probability, action, price) ==
    CASE action = "BUY_YES" -> FSub(FMul(Float100, probability), price)
      [] action = "SELL_YES" ->
             FSub(price, FMul(Float100, FSub(FloatOne, probability)))
      [] action = "BUY_NO" ->
             FSub(FMul(Float100, FSub(FloatOne, probability)), price)
      [] action = "SELL_NO" -> FSub(price, FMul(Float100, probability))

\* the probability hits / EVPaths and the price as JavaScript numbers
EVProbability(hits) == FDiv(FromInt(hits), FromInt(EVPaths))

\* calculateEV is called for one more action on the same probability and
\* price; ev holds what it returned for each action called so far
callCalculateEV(action) ==
    /\ last.op \in {"evArgs", "calculateEV"}
    /\ action \notin DOMAIN last.ev
    /\ last' = [op |-> "calculateEV", hits |-> last.hits, price |-> last.price,
                ev |-> [a \in DOMAIN last.ev \cup {action} |->
                           calculateEV(EVProbability(last.hits), a,
                                       FromInt(last.price))]]
    /\ UNCHANGED <<state, workerRef, toWorker, toMain, isInitialized, initAwait,
                   workerBuild, cache, now, dispatched, cancelled, swrData,
                   calibrationCache, keyA, keyB, client, sockets, timers>>

InitEV ==
    /\ state = [isRunning |-> FALSE, progress |-> Frac(0, 1), result |-> NoResult,
                error |-> NoError]
    /\ workerRef = FALSE
    /\ toWorker = <<>>
    /\ toMain = <<>>
    /\ isInitialized = FALSE
    /\ initAwait = FALSE
    /\ workerBuild = "part_004"
    /\ cache = <<>>
    /\ now = 0
    /\ dispatched = 0
    /\ cancelled = {}
    /\ swrData = NoCalibration
    /\ calibrationCache = [data |-> NoCalibration, timestamp |-> 0]
    /\ last \in {[op |-> "evArgs", hits |-> k, price |-> x, ev |-> <<>>] :
                    k \in 0..EVPaths, x \in EVPrices}
    /\ keyA = NoKey
    /\ keyB = NoKey
    /\ client = NoClient
    /\ sockets = <<>>
    /\ timers = NoTimers

NextEV == \E action \in EVActions : callCalculateEV(action)

SpecEV == InitEV /\ [][NextEV]_vars

\* when both actions have been valued, their expected values add up to zero
ZeroSum(buy, sell) ==
    (buy \in DOMAIN last.ev /\ sell \in DOMAIN last.ev)
    => FAdd(last.ev[buy], last.ev[sell]).m = <<>>

\* C30: calculateEV is zero-sum between the two sides of one trade: for every
\* probability and price, EV(BUY_YES, x) + EV(SELL_YES, x) = 0 and
\* EV(BUY_NO, x) + EV(SELL_NO, x) = 0.
C30_ZeroSumPerTrade ==
    last.op = "calculateEV" =>
        /\ ZeroSum("BUY_YES", "SELL_YES")
        /\ ZeroSum("BUY_NO", "SELL_NO")

====
